---- MODULE Spec2Model ----
(***************************************************************************)
(* Model of src/app.py (NextQS installation report): field parsers, the    *)
(* sheet reader, the save form and the row writer.                         *)
(*                                                                         *)
(* Text is modelled as a sequence of one-character strings, so that        *)
(* trimming, regular-expression matching and formatting are computed and   *)
(* not assumed.                                                            *)
(***************************************************************************)
EXTENDS Integers, Sequences, FiniteSets, TLC

VARIABLES
    \* ---- cliente_base applied once and twice (SpecCB)
    nome,        \* the raw client name
    base1,       \* cliente_base(nome)
    base2,       \* cliente_base(cliente_base(nome))
    cbpc,        \* "in" | "once" | "twice"
    \* ---- the worksheet and the last append_row_to_sheet call (SpecAppend)
    sheet,       \* the tab's grid: a sequence of rows, row 1 the header row
    lastOp,      \* the last append_row_to_sheet call: what it did, to what
    \* ---- the "Cadastrar Instalação" form and its last save run (SpecSave)
    form,        \* the form's widget values (st.session_state)
    errors,      \* the list "errors" of the last script run, if it was a save run
    outcome,     \* of that run: "none" | "rerun" | "invalid" | "saved" | "failed"
    \* ---- two sessions inside append_row_to_sheet at once (SpecRace)
    wpc,         \* per writer: "start" | "opened" | "built" | "scanned" | "done" | "error"
    wloc,        \* per writer: its locals (row_count, headers, row, first_empty_row)
    sheet0,      \* the sheet before either writer started
    \* ---- the report page's read (SpecRead)
    dataset,     \* what read_sheet returned: columns, rows and the frame's index
    \* ---- the report page (SpecReport)
    fspec,       \* the sidebar's selections: period, custom month, multiselects
    report,      \* what the last run of the report page computed and showed
    \* ---- a duration text and what is read from it (SpecDuration)
    drun,        \* the times or text given, the text written, the minutes parsed
    \* ---- the password gate (SpecAuth)
    auth,        \* the configured password, st.session_state.authenticated, the last run
    \* ---- the table under the report (SpecTable)
    table        \* show_cols and the columns and rows of df_show

cbVars == <<nome, base1, base2, cbpc>>

wsVars == <<sheet, lastOp>>

formVars == <<form, errors, outcome>>

raceVars == <<wpc, wloc, sheet0>>

vars == <<nome, base1, base2, cbpc, sheet, lastOp, form, errors, outcome,
          wpc, wloc, sheet0, dataset, fspec, report,
          drun, auth, table>>

repVars == <<fspec, report>>

auxVars == <<drun, auth, table>>

----------------------------------------------------------------------------
(* Bounds *)

MaxNameLen == 5

\* data rows of an initial sheet, and the rows a sheet may grow to
MaxDataRows == 3

MaxSheetRows == 6

\* rows a sheet may grow to through the save form
MaxSaveRows == 3

----------------------------------------------------------------------------
(* Text helpers: Python's str.strip(), \s and \d *)

IsSpace(c) == c \in {" ", "\t", "\n", " "}

IsDigit(c) == c \in {"0", "1", "2", "3", "4", "5", "6", "7", "8", "9"}

AllSpace(t) == \A i \in 1..Len(t) : IsSpace(t[i])

AllDigit(t) == \A i \in 1..Len(t) : IsDigit(t[i])

RECURSIVE LStrip(_)
LStrip(s) == IF s = <<>> THEN <<>>
             ELSE IF IsSpace(Head(s)) THEN LStrip(Tail(s)) ELSE s

RECURSIVE RStrip(_)
RStrip(s) == IF s = <<>> THEN <<>>
             ELSE IF IsSpace(s[Len(s)]) THEN RStrip(SubSeq(s, 1, Len(s) - 1)) ELSE s

Strip(s) == RStrip(LStrip(s))

\* All texts over alphabet A of length 0..n
RECURSIVE TextsOfLen(_, _)
TextsOfLen(A, n) == IF n = 0 THEN {<<>>}
                    ELSE {Append(t, c) : t \in TextsOfLen(A, n - 1), c \in A}

TextsUpTo(A, n) == UNION {TextsOfLen(A, k) : k \in 0..n}

\* The state of the parts a specification does not exercise
NoOp == [kind |-> "none", index |-> 0, row |-> <<>>, rec |-> <<>>, pre |-> <<>>]

CBIdle ==
    /\ nome = <<>>
    /\ base1 = <<>>
    /\ base2 = <<>>
    /\ cbpc = "off"

NoForm == [data |-> <<>>, inicio |-> <<>>, termino |-> <<>>, uf |-> <<>>, valor |-> <<>>]

FormIdle ==
    /\ form = NoForm
    /\ errors = <<>>
    /\ outcome = "none"

NoDataset == [read |-> FALSE, columns |-> <<>>, rows |-> <<>>, index |-> <<>>]

NoSpec == [period |-> "none", year |-> 0, month |-> 0, uf |-> {}, cliente |-> {}]

NoReport == [stage |-> "none"]

ReportIdle ==
    /\ fspec = NoSpec
    /\ report = NoReport

\* no duration given, no script run through the gate, no table drawn
NoDur == [stage |-> "none"]

NoAuth == [stage |-> "none"]

NoTable == [stage |-> "none"]

AuxIdle ==
    /\ drun = NoDur
    /\ auth = NoAuth
    /\ table = NoTable

RaceIdle ==
    /\ wpc = <<>>
    /\ wloc = <<>>
    /\ sheet0 = <<>>
    /\ dataset = NoDataset

----------------------------------------------------------------------------
(* cliente_base: src/app.py 329-346 *)

\* re.IGNORECASE on the letters of the separator alternatives
LowerChar(c) == CASE c = "N" -> "n" [] c = "O" -> "o" [] c = "U" -> "u"
                  [] c = "M" -> "m" [] OTHER -> c

LowerText(t) == [i \in 1..Len(t) |-> LowerChar(t[i])]

\* (?:[-#]|nº|no\.?|num\.?|\.)
SuffixSeps == { <<"-">>, <<"#">>, <<"n", "º">>, <<"n", "o">>, <<"n", "o", ".">>,
                <<"n", "u", "m">>, <<"n", "u", "m", ".">>, <<".">> }

\* t as a whole matches  \s*(?:sep)?\s*\d+\s*$
SuffixMatches(t) ==
    \E i \in 0..Len(t) : \E j \in i..Len(t) : \E k \in j..Len(t) : \E l \in (k + 1)..Len(t) :
        /\ AllSpace(SubSeq(t, 1, i))
        /\ (j = i \/ LowerText(SubSeq(t, i + 1, j)) \in SuffixSeps)
        /\ AllSpace(SubSeq(t, j + 1, k))
        /\ AllDigit(SubSeq(t, k + 1, l))
        /\ AllSpace(SubSeq(t, l + 1, Len(t)))

\* re.sub(pattern, "", s): the leftmost match runs to the end of s, so there is
\* at most one substitution
StripNumericSuffix(s) ==
    LET starts == {i \in 1..Len(s) : SuffixMatches(SubSeq(s, i, Len(s)))}
    IN  IF starts = {} THEN s
        ELSE LET first == CHOOSE i \in starts : \A j \in starts : i <= j
             IN  SubSeq(s, 1, first - 1)

\* re.sub(r"\s{2,}", " ", s)
RECURSIVE CollapseSpaces(_)
CollapseSpaces(s) ==
    IF s = <<>> THEN <<>>
    ELSE IF Len(s) >= 2 /\ IsSpace(s[1]) /\ IsSpace(s[2])
         THEN <<" ">> \o CollapseSpaces(LStrip(s))
         ELSE <<Head(s)>> \o CollapseSpaces(Tail(s))

cliente_base(n) ==
    LET s == Strip(n)
    IN  IF s = <<>> THEN <<>>
        ELSE Strip(CollapseSpaces(StripNumericSuffix(s)))

NameAlphabet == {"A", " ", "-", "1", "2"}

InitCB ==
    /\ nome \in TextsUpTo(NameAlphabet, MaxNameLen)
    /\ base1 = <<>>
    /\ base2 = <<>>
    /\ cbpc = "in"
    /\ sheet = <<>>
    /\ lastOp = NoOp
    /\ FormIdle
    /\ ReportIdle
    /\ AuxIdle
    /\ RaceIdle

ApplyClienteBase ==
    /\ cbpc = "in"
    /\ base1' = cliente_base(nome)
    /\ cbpc' = "once"
    /\ UNCHANGED <<nome, base2>>
    /\ UNCHANGED <<wsVars, formVars, raceVars, dataset, repVars, auxVars>>

ApplyClienteBaseAgain ==
    /\ cbpc = "once"
    /\ base2' = cliente_base(base1)
    /\ cbpc' = "twice"
    /\ UNCHANGED <<nome, base1>>
    /\ UNCHANGED <<wsVars, formVars, raceVars, dataset, repVars, auxVars>>

NextCB == ApplyClienteBase \/ ApplyClienteBaseAgain

SpecCB == InitCB /\ [][NextCB]_vars

\* C1: cliente_base is idempotent: for every name, applying it to its own
\* result gives that result again.
C1_Idempotent == cbpc = "twice" => base2 = base1

----------------------------------------------------------------------------
(* Texts used in sheets and records *)

T_Data == <<"D", "a", "t", "a">>
T_UF == <<"U", "F">>
T_CV == <<"C", "V">>
T_Players == <<"P", "l", "a", "y", "e", "r", "s">>
T_Obs == <<"O", "b", "s">>
T_d1 == <<"0", "1", "/", "0", "1", "/", "2", "0", "2", "6">>
T_d2 == <<"0", "2", "/", "0", "1", "/", "2", "0", "2", "6">>
T_d5 == <<"0", "5", "/", "0", "1", "/", "2", "0", "2", "6">>
T_d6 == <<"0", "6", "/", "0", "1", "/", "2", "0", "2", "6">>
T_SP == <<"S", "P">>
T_RJ == <<"R", "J">>

\* A Python value held by values_by_header: None, an int or a str
NoneVal == [k |-> "none", n |-> 0, s |-> <<>>]
IntVal(i) == [k |-> "int", n |-> i, s |-> <<>>]
StrVal(t) == [k |-> "str", n |-> 0, s |-> t]

DigitChar(d) == CASE d = 0 -> "0" [] d = 1 -> "1" [] d = 2 -> "2" [] d = 3 -> "3"
                  [] d = 4 -> "4" [] d = 5 -> "5" [] d = 6 -> "6" [] d = 7 -> "7"
                  [] d = 8 -> "8" [] d = 9 -> "9"

RECURSIVE NatToText(_)
NatToText(i) == IF i < 10 THEN <<DigitChar(i)>>
                ELSE Append(NatToText(i \div 10), DigitChar(i % 10))

\* str(v) for an int or a str
PyStr(v) == IF v.k = "int"
            THEN (IF v.n < 0 THEN <<"-">> \o NatToText(-v.n) ELSE NatToText(v.n))
            ELSE v.s

----------------------------------------------------------------------------
(* The worksheet as gspread shows it: src/app.py 105, 118, 135, 137 *)

IsBlankCell(c) == c = <<>>

\* the values API leaves out the empty cells (rows) that end a range
RECURSIVE TrimTrailingEmpty(_)
TrimTrailingEmpty(q) ==
    IF q = <<>> THEN <<>>
    ELSE IF q[Len(q)] = <<>> THEN TrimTrailingEmpty(SubSeq(q, 1, Len(q) - 1)) ELSE q

\* ws.row_values(r)
RowValues(sh, r) == IF r > Len(sh) THEN <<>> ELSE TrimTrailingEmpty(sh[r])

\* ws.row_count
RowCount(sh) == Len(sh)

Min(a, b) == IF a < b THEN a ELSE b

\* ws.get("A2:A<rc>"): one item per row, [] for an empty cell, ["v"] otherwise
GetColA(sh, rc) ==
    LET last == Min(rc, Len(sh))
    IN  TrimTrailingEmpty([i \in 1..(last - 1) |->
            IF IsBlankCell(sh[i + 1][1]) THEN <<>> ELSE <<sh[i + 1][1]>>])

PadRow(row, width) == [i \in 1..width |-> IF i <= Len(row) THEN row[i] ELSE <<>>]

GridWidth(sh) == Len(sh[1])

\* writing the row over row index instead of inserting it (ws.update)
InsertRowApi_Overwrite(sh, row, index) ==
    [sh EXCEPT ![index] = PadRow(row, GridWidth(sh))]

\* ws.insert_row(row, index): a new row at index, the rows from index on move down
InsertRowApi(sh, row, index) ==
    SubSeq(sh, 1, index - 1) \o <<PadRow(row, GridWidth(sh))>> \o SubSeq(sh, index, Len(sh))

LastDataRow(sh) ==
    LET data == {r \in 1..Len(sh) : \E c \in 1..Len(sh[r]) : ~IsBlankCell(sh[r][c])}
    IN  IF data = {} THEN 0 ELSE CHOOSE r \in data : \A q \in data : q <= r

\* ws.append_row(row): the row after the last row that holds data
AppendRowApi(sh, row) ==
    LET at == LastDataRow(sh) + 1
    IN  IF at > Len(sh) THEN Append(sh, PadRow(row, GridWidth(sh)))
        ELSE [sh EXCEPT ![at] = PadRow(row, GridWidth(sh))]

----------------------------------------------------------------------------
(* append_row_to_sheet: src/app.py 86-137 *)

\* headers = [h.strip() for h in ws.row_values(1)]
Headers(sh) == LET rv == RowValues(sh, 1) IN [i \in 1..Len(rv) |-> Strip(rv[i])]

\* values_by_header.get(key, "")
DictGet(rec, key) == IF key \in DOMAIN rec THEN rec[key] ELSE StrVal(<<>>)

\* the row without the None test: str(None) is "None"
BuildRow_StrNone(headers, rec) ==
    [i \in 1..Len(headers) |->
        LET v == DictGet(rec, Strip(headers[i]))
        IN  IF v.k = "none" THEN <<"N", "o", "n", "e">> ELSE PyStr(v)]

\* row = ["" if v is None else str(v) for the value under each header]
BuildRow(headers, rec) ==
    [i \in 1..Len(headers) |->
        LET v == DictGet(rec, Strip(headers[i]))
        IN  IF v.k = "none" THEN <<>> ELSE PyStr(v)]

\* col_a padded to row_count - 1 items
PadColA(col_a, rc) ==
    IF Len(col_a) < rc - 1 THEN col_a \o [i \in 1..((rc - 1) - Len(col_a)) |-> <<>>]
    ELSE col_a

\* the scan: the row of the first item whose value trims to empty, 0 for None
RECURSIVE ScanFrom(_, _)
ScanFrom(col_a, offset) ==
    LET i == offset - 1
    IN  IF i > Len(col_a) THEN 0
        ELSE LET cell == col_a[i]
                 val == IF cell # <<>> /\ Len(cell) > 0 THEN Strip(cell[1]) ELSE <<>>
             IN  IF val = <<>> THEN offset ELSE ScanFrom(col_a, offset + 1)

\* the scan without .strip(): a cell holding only blanks counts as occupied
RECURSIVE ScanFromNoTrim(_, _)
ScanFromNoTrim(col_a, offset) ==
    LET i == offset - 1
    IN  IF i > Len(col_a) THEN 0
        ELSE IF col_a[i] = <<>> THEN offset ELSE ScanFromNoTrim(col_a, offset + 1)

FirstEmptyRow_NoTrim(col_a) == ScanFromNoTrim(col_a, 2)

FirstEmptyRow(col_a) == ScanFrom(col_a, 2)

\* the whole call on sheet sh: what it did and the sheet it leaves
append_row_to_sheet(sh, rec) ==
    LET headers == Headers(sh)
        row == BuildRow(headers, rec)
        rc == RowCount(sh)
        col_a == PadColA(GetColA(sh, rc), rc)
        first_empty_row == FirstEmptyRow(col_a)
    IN  IF headers = <<>>
        THEN [kind |-> "error", index |-> 0, row |-> <<>>, sheet |-> sh]
        ELSE IF first_empty_row = 0
        THEN [kind |-> "append", index |-> LastDataRow(sh) + 1, row |-> row,
              sheet |-> AppendRowApi(sh, row)]
        ELSE [kind |-> "insert", index |-> first_empty_row, row |-> row,
              sheet |-> InsertRowApi(sh, row, first_empty_row)]

\* Sheets the tab can hold: a header row and 1..MaxDataRows rows under it
HeaderRows ==
    { <<T_Data, <<" ">> \o T_UF \o <<" ">>, T_CV>>,
      <<T_UF, <<>>, T_Data>>,
      <<T_Data, T_Obs, <<>>>>,
      <<<<>>, <<>>, <<>>>>,
      <<<<" ">>, <<>>, <<>>>> }

DataRows ==
    { <<<<>>, <<>>, <<>>>>,
      <<T_d1, T_SP, <<"7">>>>,
      <<<<" ">>, T_RJ, <<>>>>,
      <<T_d2, <<>>, <<>>>> }

RECURSIVE SeqsOfLen(_, _)
SeqsOfLen(S, n) == IF n = 0 THEN {<<>>}
                   ELSE {Append(q, x) : q \in SeqsOfLen(S, n - 1), x \in S}

InitialSheets ==
    {<<h>> \o body : h \in HeaderRows,
                     body \in UNION {SeqsOfLen(DataRows, n) : n \in 1..MaxDataRows}}

\* The records handed to append_row_to_sheet
Records ==
    { (T_Data :> StrVal(T_d5)) @@ (T_UF :> StrVal(T_SP))
        @@ (T_Players :> IntVal(2)) @@ (T_CV :> IntVal(10)),
      (T_Data :> StrVal(T_d6)) @@ (T_UF :> NoneVal) @@ (T_Obs :> StrVal(<<"x">>)) }

WSIdle ==
    /\ sheet = <<>>
    /\ lastOp = NoOp

InitAppend ==
    /\ sheet \in InitialSheets
    /\ lastOp = NoOp
    /\ CBIdle
    /\ FormIdle
    /\ ReportIdle
    /\ AuxIdle
    /\ RaceIdle

AppendRowToSheet(rec) ==
    /\ Len(sheet) < MaxSheetRows
    /\ \E r \in {append_row_to_sheet(sheet, rec)} :
           /\ sheet' = r.sheet
           /\ lastOp' = [kind |-> r.kind, index |-> r.index, row |-> r.row,
                         rec |-> rec, pre |-> sheet]
    /\ UNCHANGED <<cbVars, formVars, raceVars, dataset, repVars, auxVars>>

NextAppend == \E rec \in Records : AppendRowToSheet(rec)

SpecAppend == InitAppend /\ [][NextAppend]_vars

----------------------------------------------------------------------------
(* Claims about append_row_to_sheet (SpecAppend) *)

Wrote == lastOp.kind \in {"insert", "append"}

\* rows from 2 on whose reference cell (column A) trims to empty
EmptyRefRows(sh) == {r \in 2..Len(sh) : Strip(sh[r][1]) = <<>>}

OccupiedRows(sh) == {r \in 2..Len(sh) : Strip(sh[r][1]) # <<>>}

MinOf(S) == CHOOSE x \in S : \A y \in S : x <= y

\* C2: the new record is placed at the smallest row index >= 2 whose column A
\* cell trims to empty, the rows from that index on moving down by one; with no
\* such row inside the row extent it is appended after the last row.
C2_FirstGapOrAppend ==
    Wrote =>
        LET pre == lastOp.pre
            new == PadRow(lastOp.row, Len(pre[1]))
            gaps == EmptyRefRows(pre)
            at == IF gaps # {} THEN MinOf(gaps) ELSE Len(pre) + 1
        IN  /\ Len(sheet) = Len(pre) + 1
            /\ sheet[at] = new
            /\ \A r \in 1..(at - 1) : sheet[r] = pre[r]
            /\ \A r \in at..Len(pre) : sheet[r + 1] = pre[r]
            /\ (lastOp.kind = "append") = (gaps = {})

\* rows 2-4 filled, row 5 blank, and the record went to row 5
C2_Witness ==
    /\ lastOp.kind = "insert"
    /\ Len(lastOp.pre) >= 5
    /\ \A r \in 2..4 : Strip(lastOp.pre[r][1]) # <<>>
    /\ \A c \in 1..Len(lastOp.pre[5]) : lastOp.pre[5][c] = <<>>
    /\ lastOp.index = 5
    /\ sheet[5][1] = T_d5

\* empty-reference rows that lie before an occupied row
GapsBefore(sh) == {r \in EmptyRefRows(sh) : \E q \in OccupiedRows(sh) : q > r}

\* C3: an append that targets a gap row lying before occupied rows consumes
\* that gap: one empty row fewer precedes the last occupied row.
C3_GapConsumed ==
    ( /\ lastOp.kind = "insert"
      /\ Strip(lastOp.row[1]) # <<>>
      /\ \E q \in OccupiedRows(lastOp.pre) : q > lastOp.index )
    => Cardinality(GapsBefore(sheet)) = Cardinality(GapsBefore(lastOp.pre)) - 1

DigitVal(c) == CASE c = "0" -> 0 [] c = "1" -> 1 [] c = "2" -> 2 [] c = "3" -> 3
                 [] c = "4" -> 4 [] c = "5" -> 5 [] c = "6" -> 6 [] c = "7" -> 7
                 [] c = "8" -> 8 [] c = "9" -> 9

RECURSIVE TextToNat(_)
TextToNat(t) == IF t = <<>> THEN 0
                ELSE 10 * TextToNat(SubSeq(t, 1, Len(t) - 1)) + DigitVal(t[Len(t)])

\* the header cells of row 1 up to its last non-empty cell
LiveHeaderCount(sh) ==
    LET filled == {c \in 1..Len(sh[1]) : sh[1][c] # <<>>}
    IN  IF filled = {} THEN 0 ELSE CHOOSE c \in filled : \A d \in filled : d <= c

\* C7: the written row has one cell per live header column, in header order:
\* the string form of the record's value under the trimmed header, the empty
\* string when the record has no such key or holds None.
C7_RowFollowsHeader ==
    Wrote =>
        LET pre == lastOp.pre
            row == lastOp.row
            rec == lastOp.rec
        IN  /\ Len(row) = LiveHeaderCount(pre)
            /\ sheet[lastOp.index] = PadRow(row, Len(pre[1]))
            /\ \A i \in 1..Len(row) :
                  LET h == Strip(pre[1][i])
                  IN  IF h \in DOMAIN rec /\ rec[h].k # "none"
                      THEN IF rec[h].k = "int"
                           THEN AllDigit(row[i]) /\ row[i] # <<>>
                                /\ TextToNat(row[i]) = rec[h].n
                           ELSE row[i] = rec[h].s
                      ELSE row[i] = <<>>

\* header "Data, ' UF ', CV": the int 10 is written as "10", UF is found under
\* the trimmed header and the key Players, not a header, is dropped
C7_Witness ==
    /\ Wrote
    /\ lastOp.pre[1][2] = <<" ">> \o T_UF \o <<" ">>
    /\ T_Players \in DOMAIN lastOp.rec
    /\ lastOp.row = <<T_d5, T_SP, <<"1", "0">>>>

\* C8: the call fails whenever no header cell holds non-blank text, and then
\* the sheet is unchanged.
C8_BlankHeaderFails ==
    ( /\ lastOp.kind # "none"
      /\ \A c \in 1..Len(lastOp.pre[1]) : Strip(lastOp.pre[1][c]) = <<>> )
    => (lastOp.kind = "error" /\ sheet = lastOp.pre)

----------------------------------------------------------------------------
(* The save form's parsers: src/app.py 683-752, 252-278 *)

Take(t, n) == SubSeq(t, 1, Min(n, Len(t)))

\* re.sub(r"\D", "", x)
digits_only(x) == SelectSeq(x, IsDigit)

mask_date_ddmmyyyy(x) ==
    LET d == Take(digits_only(x), 8)
    IN  IF Len(d) <= 2 THEN d
        ELSE IF Len(d) <= 4 THEN SubSeq(d, 1, 2) \o <<"/">> \o SubSeq(d, 3, Len(d))
        ELSE SubSeq(d, 1, 2) \o <<"/">> \o SubSeq(d, 3, 4) \o <<"/">> \o SubSeq(d, 5, Len(d))

mask_time_hhmm(x) ==
    LET d == Take(digits_only(x), 4)
    IN  IF Len(d) <= 2 THEN d
        ELSE SubSeq(d, 1, 2) \o <<":">> \o SubSeq(d, 3, Len(d))

\* str.split(sep)
RECURSIVE SplitOn(_, _)
SplitOn(t, sep) ==
    LET at == {i \in 1..Len(t) : t[i] = sep}
    IN  IF at = {} THEN <<t>>
        ELSE LET i == MinOf(at)
             IN  <<SubSeq(t, 1, i - 1)>> \o SplitOn(SubSeq(t, i + 1, Len(t)), sep)

IsLeap(y) == (y % 4 = 0 /\ y % 100 # 0) \/ y % 400 = 0

DaysInMonth(y, m) ==
    IF m = 2 THEN (IF IsLeap(y) THEN 29 ELSE 28)
    ELSE IF m \in {4, 6, 9, 11} THEN 30 ELSE 31

NoDate == [ok |-> FALSE, y |-> 0, m |-> 0, d |-> 0]

\* datetime.strptime(t, "%d/%m/%Y").date(): day and month of one or two
\* digits, a year of four, and a date of the calendar
StrpDate(t) ==
    LET parts == SplitOn(t, "/")
    IN  IF Len(parts) # 3 THEN NoDate
        ELSE LET dd == parts[1]
                 mm == parts[2]
                 yy == parts[3]
             IN  IF /\ Len(dd) \in {1, 2} /\ AllDigit(dd)
                    /\ Len(mm) \in {1, 2} /\ AllDigit(mm)
                    /\ Len(yy) = 4 /\ AllDigit(yy)
                    /\ TextToNat(mm) \in 1..12
                    /\ TextToNat(yy) >= 1
                    /\ TextToNat(dd) \in 1..DaysInMonth(TextToNat(yy), TextToNat(mm))
                 THEN [ok |-> TRUE, y |-> TextToNat(yy), m |-> TextToNat(mm),
                       d |-> TextToNat(dd)]
                 ELSE NoDate

parse_date_ddmmyyyy(t) ==
    LET s0 == Strip(t)
        s1 == IF Len(s0) = 8 /\ AllDigit(s0) THEN mask_date_ddmmyyyy(s0) ELSE s0
    IN  IF s0 = <<>> THEN NoDate ELSE StrpDate(s1)

NoTime == [ok |-> FALSE, h |-> 0, m |-> 0]

parse_time_hhmm(t) ==
    LET s0 == Strip(t)
        s1 == IF Len(s0) = 4 /\ AllDigit(s0) THEN mask_time_hhmm(s0) ELSE s0
    IN  IF s0 = <<>> THEN NoTime
        ELSE IF ~( /\ Len(s1) = 5 /\ s1[3] = ":"
                   /\ AllDigit(SubSeq(s1, 1, 2)) /\ AllDigit(SubSeq(s1, 4, 5)) )
        THEN NoTime
        ELSE LET h == TextToNat(SubSeq(s1, 1, 2))
                 m == TextToNat(SubSeq(s1, 4, 5))
             IN  IF h <= 23 /\ m <= 59 THEN [ok |-> TRUE, h |-> h, m |-> m] ELSE NoTime

\* f"{n:02d}"
Pad2(n) == IF n < 10 THEN <<"0">> \o NatToText(n) ELSE NatToText(n)

\* f"{n:04d}"
Pad4(n) == IF n < 10 THEN <<"0", "0", "0">> \o NatToText(n)
           ELSE IF n < 100 THEN <<"0", "0">> \o NatToText(n)
           ELSE IF n < 1000 THEN <<"0">> \o NatToText(n)
           ELSE NatToText(n)

\* d.strftime("%d/%m/%Y")
FormatDate(d) == Pad2(d.d) \o <<"/">> \o Pad2(d.m) \o <<"/">> \o Pad4(d.y)

\* _duration_hhmm: the text HH:MM, or the ValueError it raises
duration_hhmm(start_hhmm, end_hhmm) ==
    LET t1 == parse_time_hhmm(start_hhmm)
        t2 == parse_time_hhmm(end_hhmm)
        m1 == t1.h * 60 + t1.m
        m2 == t2.h * 60 + t2.m
        total_minutes == m2 - m1
    IN  IF ~t1.ok \/ ~t2.ok THEN [ok |-> FALSE, err |-> "E_DUR_HORARIO", text |-> <<>>]
        ELSE IF m2 < m1 THEN [ok |-> FALSE, err |-> "E_DUR_TERMINO_MENOR", text |-> <<>>]
        ELSE [ok |-> TRUE, err |-> "",
              text |-> Pad2(total_minutes \div 60) \o <<":">> \o Pad2(total_minutes % 60)]

LowerLetters == <<"a", "b", "c", "d", "e", "f", "g", "h", "i", "j", "k", "l", "m",
                  "n", "o", "p", "q", "r", "s", "t", "u", "v", "w", "x", "y", "z">>

UpperLetters == <<"A", "B", "C", "D", "E", "F", "G", "H", "I", "J", "K", "L", "M",
                  "N", "O", "P", "Q", "R", "S", "T", "U", "V", "W", "X", "Y", "Z">>

IsUpperAZ(c) == \E i \in 1..26 : UpperLetters[i] = c

\* str.upper() and str.lower()
PyUpper(t) == [i \in 1..Len(t) |->
                 IF \E k \in 1..26 : LowerLetters[k] = t[i]
                 THEN UpperLetters[CHOOSE k \in 1..26 : LowerLetters[k] = t[i]]
                 ELSE t[i]]

PyLower(t) == [i \in 1..Len(t) |->
                 IF \E k \in 1..26 : UpperLetters[k] = t[i]
                 THEN LowerLetters[CHOOSE k \in 1..26 : UpperLetters[k] = t[i]]
                 ELSE t[i]]

\* str.replace(old, new) for a one-character old
ReplaceChar(t, old, new) ==
    IF t = <<>> THEN <<>>
    ELSE LET F[i \in 0..Len(t)] ==
                 IF i = 0 THEN <<>>
                 ELSE F[i - 1] \o (IF t[i] = old THEN new ELSE <<t[i]>>)
         IN  F[Len(t)]

\* str.replace(old, "") for a two-character old
RECURSIVE RemovePair(_, _)
RemovePair(t, old) ==
    IF Len(t) < 2 THEN t
    ELSE IF SubSeq(t, 1, 2) = old THEN RemovePair(SubSeq(t, 3, Len(t)), old)
    ELSE <<t[1]>> \o RemovePair(Tail(t), old)

\* pd.to_numeric(s, errors="coerce") is a number: an optional sign, digits
\* with at most one decimal point, at least one digit
IsNumericText(t) ==
    LET body == IF t # <<>> /\ t[1] \in {"+", "-"} THEN Tail(t) ELSE t
        dots == {i \in 1..Len(body) : body[i] = "."}
    IN  /\ \A i \in 1..Len(body) : IsDigit(body[i]) \/ body[i] = "."
        /\ Cardinality(dots) <= 1
        /\ \E i \in 1..Len(body) : IsDigit(body[i])

\* parse_brl_money for a str: ok is FALSE for None, text is what to_numeric read
parse_brl_money(value) ==
    LET s0 == Strip(value)
        s1 == ReplaceChar(ReplaceChar(s0, " ", <<" ">>), " ", <<>>)
        s2 == RemovePair(RemovePair(s1, <<"R", "$">>), <<"r", "$">>)
        s3 == ReplaceChar(ReplaceChar(s2, ".", <<>>), ",", <<".">>)
    IN  IF s0 = <<>> \/ PyLower(s0) \in {<<"n", "a", "n">>, <<"n", "o", "n", "e">>}
        THEN [ok |-> FALSE, text |-> <<>>]
        ELSE IF IsNumericText(s3) THEN [ok |-> TRUE, text |-> s3]
        ELSE [ok |-> FALSE, text |-> <<>>]

----------------------------------------------------------------------------
(* The "Salvar na planilha" run: src/app.py 754-927 *)

T_Inicio == <<"I", "n", "í", "c", "i", "o">>
T_Termino == <<"T", "é", "r", "m", "i", "n", "o">>
T_Duracao == <<"D", "u", "r", "a", "ç", "ã", "o">>
T_Valor == <<"V", "a", "l", "o", "r", " ", "d", "a", " ",
             "i", "n", "s", "t", "a", "l", "a", "ç", "ã", "o">>
T_Modalidade == <<"M", "o", "d", "a", "l", "i", "d", "a", "d", "e">>
T_Remota == <<"R", "e", "m", "o", "t", "a">>
T_dBad == <<"3", "1", "/", "0", "2", "/", "2", "0", "2", "6">>
T_dRaw == <<"5", "/", "1", "/", "2", "0", "2", "6">>
T_1300 == <<"1", "3", ":", "0", "0">>
T_1430 == <<"1", "4", ":", "3", "0">>
T_2500 == <<"2", "5", ":", "0", "0">>
T_sp == <<"s", "p">>
T_S == <<"S">>
T_500 == <<"5", "0", "0", ",", "0", "0">>
T_abc == <<"a", "b", "c">>

\* re.fullmatch(r"[0-9/]+", t) and re.fullmatch(r"[0-9:]+", t)
OnlyDigitsAnd(t, ch) == t # <<>> /\ \A i \in 1..Len(t) : IsDigit(t[i]) \/ t[i] = ch

\* uf_clean
UfClean(f) == PyUpper(Strip(f.uf))

\* the checks with the UF test left out
ValidationErrors_NoUF(f) ==
       (IF ~parse_date_ddmmyyyy(f.data).ok THEN <<"E_DATA">> ELSE <<>>)
    \o (IF ~parse_time_hhmm(Strip(f.inicio)).ok THEN <<"E_INICIO">> ELSE <<>>)
    \o (IF ~parse_time_hhmm(Strip(f.termino)).ok THEN <<"E_TERMINO">> ELSE <<>>)
    \o (IF Strip(f.valor) # <<>> /\ ~parse_brl_money(f.valor).ok
        THEN <<"E_VALOR">> ELSE <<>>)

\* the checks made before the duration is computed, in the order of the code
ValidationErrors(f) ==
       (IF ~parse_date_ddmmyyyy(f.data).ok THEN <<"E_DATA">> ELSE <<>>)
    \o (IF Strip(f.data) # <<>> /\ ~OnlyDigitsAnd(Strip(f.data), "/")
        THEN <<"E_DATA_CHARS">> ELSE <<>>)
    \o (IF ~parse_time_hhmm(Strip(f.inicio)).ok THEN <<"E_INICIO">> ELSE <<>>)
    \o (IF ~parse_time_hhmm(Strip(f.termino)).ok THEN <<"E_TERMINO">> ELSE <<>>)
    \o (IF Strip(f.inicio) # <<>> /\ ~OnlyDigitsAnd(Strip(f.inicio), ":")
        THEN <<"E_INICIO_CHARS">> ELSE <<>>)
    \o (IF Strip(f.termino) # <<>> /\ ~OnlyDigitsAnd(Strip(f.termino), ":")
        THEN <<"E_TERMINO_CHARS">> ELSE <<>>)
    \o (IF ~(Len(UfClean(f)) = 2 /\ \A i \in 1..2 : IsUpperAZ(UfClean(f)[i]))
        THEN <<"E_UF">> ELSE <<>>)
    \o (IF Strip(f.valor) # <<>> /\ ~parse_brl_money(f.valor).ok
        THEN <<"E_VALOR">> ELSE <<>>)

\* the duration is computed only when no check has failed so far
DurationStep(f, errs) ==
    IF errs # <<>> THEN [ok |-> FALSE, err |-> "", text |-> <<>>]
    ELSE duration_hhmm(Strip(f.inicio), Strip(f.termino))

AllErrors(f) ==
    LET errs == ValidationErrors(f)
        dur == DurationStep(f, errs)
    IN  IF errs = <<>> /\ ~dur.ok THEN <<dur.err>> ELSE errs

\* values_by_header (the keys that matter to the sheets modelled, and two more)
ValuesByHeader(f) ==
    LET d == parse_date_ddmmyyyy(f.data)
        dur == duration_hhmm(Strip(f.inicio), Strip(f.termino))
    IN  (T_Data :> StrVal(FormatDate(d)))
        @@ (T_Inicio :> StrVal(Strip(f.inicio)))
        @@ (T_Termino :> StrVal(Strip(f.termino)))
        @@ (T_Modalidade :> StrVal(T_Remota))
        @@ (T_Players :> IntVal(0))
        @@ (T_UF :> StrVal(UfClean(f)))
        @@ (T_Valor :> StrVal(Strip(f.valor)))
        @@ (T_Duracao :> StrVal(dur.text))

\* the masks applied while typing (764-778): a field that differs from its
\* mask is rewritten in the session state and the script reruns, field after
\* field, before line 850 is reached
NeedsMask(f) ==
    \/ mask_date_ddmmyyyy(f.data) # f.data
    \/ mask_time_hhmm(f.inicio) # f.inicio
    \/ mask_time_hhmm(f.termino) # f.termino

MaskedForm(f) ==
    [f EXCEPT !.data = mask_date_ddmmyyyy(f.data),
              !.inicio = mask_time_hhmm(f.inicio),
              !.termino = mask_time_hhmm(f.termino)]

\* one script run with the button pressed, on sheet sh; net: the calls to the
\* spreadsheet go through
SalvarRun(f, sh, net) ==
    LET errs == AllErrors(f)
        r == append_row_to_sheet(sh, ValuesByHeader(f))
    IN  IF NeedsMask(f)
        THEN [outcome |-> "rerun", errors |-> <<>>, form |-> MaskedForm(f),
              sheet |-> sh, op |-> NoOp]
        ELSE IF errs # <<>>
        THEN [outcome |-> "invalid", errors |-> errs, form |-> f,
              sheet |-> sh, op |-> NoOp]
        ELSE IF ~net
        THEN [outcome |-> "failed", errors |-> errs, form |-> f, sheet |-> sh,
              op |-> [kind |-> "transport", index |-> 0, row |-> <<>>,
                      rec |-> ValuesByHeader(f), pre |-> sh]]
        ELSE [outcome |-> IF r.kind = "error" THEN "failed" ELSE "saved",
              errors |-> errs, form |-> f, sheet |-> r.sheet,
              op |-> [kind |-> r.kind, index |-> r.index, row |-> r.row,
                      rec |-> ValuesByHeader(f), pre |-> sh]]

Forms ==
    [data : {T_d5, T_dBad, T_dRaw},
     inicio : {T_1300, T_1430, T_2500},
     termino : {T_1300, T_1430, <<>>},
     uf : {T_sp, T_S},
     valor : {<<>>, T_500, T_abc}]

SaveHeader == <<T_Data, T_Inicio, T_Termino, T_Duracao, T_UF, T_Valor>>

SaveRow == <<T_d1, T_1300, T_1430, <<"0", "1", ":", "3", "0">>, T_SP, T_500>>

BlankSaveRow == <<<<>>, <<>>, <<>>, <<>>, <<>>, <<>>>>

SaveSheets == { <<SaveHeader, SaveRow>>, <<SaveHeader, BlankSaveRow>> }

InitSave ==
    /\ sheet \in SaveSheets
    /\ lastOp = NoOp
    /\ FormIdle
    /\ ReportIdle
    /\ AuxIdle
    /\ CBIdle
    /\ RaceIdle

\* the user fills in the form
Digitar(f) ==
    /\ Len(sheet) < MaxSaveRows
    /\ form' = f
    /\ errors' = <<>>
    /\ outcome' = "none"
    /\ lastOp' = NoOp
    /\ UNCHANGED <<sheet, cbVars, raceVars, dataset, repVars, auxVars>>

\* a script run of the form page without the button: only the masks act
MaskRerun ==
    /\ NeedsMask(form)
    /\ form' = MaskedForm(form)
    /\ errors' = <<>>
    /\ outcome' = "none"
    /\ lastOp' = NoOp
    /\ UNCHANGED <<sheet, cbVars, raceVars, dataset, repVars, auxVars>>

\* a script run with "Salvar na planilha" pressed
Salvar(net) ==
    /\ form # NoForm
    /\ Len(sheet) < MaxSaveRows
    /\ \E r \in {SalvarRun(form, sheet, net)} :
           /\ form' = r.form
           /\ errors' = r.errors
           /\ outcome' = r.outcome
           /\ sheet' = r.sheet
           /\ lastOp' = r.op
    /\ UNCHANGED <<cbVars, raceVars, dataset, repVars, auxVars>>

NextSave ==
    \/ \E f \in Forms : Digitar(f)
    \/ MaskRerun
    \/ \E net \in BOOLEAN : Salvar(net)

SpecSave == InitSave /\ [][NextSave]_vars

----------------------------------------------------------------------------
(* Claims about the save run (SpecSave) *)

\* What is wrong with a form, told from the texts themselves
ValidDateTexts == {T_d5, T_dRaw}

ValidTimeTexts == {T_1300, T_1430}

MinutesOf(t) == IF t = T_1300 THEN 13 * 60 ELSE IF t = T_1430 THEN 14 * 60 + 30 ELSE 0

IsLetter(c) == \E i \in 1..26 : c = LowerLetters[i] \/ c = UpperLetters[i]

ValidAmountTexts == {T_500}

Failures(f) ==
         (IF f.data \in ValidDateTexts THEN {} ELSE {"E_DATA"})
    \cup (IF f.inicio \in ValidTimeTexts THEN {} ELSE {"E_INICIO"})
    \cup (IF f.termino \in ValidTimeTexts THEN {} ELSE {"E_TERMINO"})
    \cup (IF /\ f.inicio \in ValidTimeTexts /\ f.termino \in ValidTimeTexts
             /\ MinutesOf(f.termino) < MinutesOf(f.inicio)
          THEN {"E_DUR_TERMINO_MENOR"} ELSE {})
    \cup (IF Len(f.uf) = 2 /\ \A i \in 1..2 : IsLetter(f.uf[i]) THEN {} ELSE {"E_UF"})
    \cup (IF f.valor = <<>> \/ f.valor \in ValidAmountTexts THEN {} ELSE {"E_VALOR"})

Reported == {errors[i] : i \in 1..Len(errors)}

\* C4: a save run on a form with at least one validation failure does not call
\* append_row_to_sheet and leaves the sheet as it was.
C4_NoWriteOnFailure ==
    [][ (Failures(form) # {} \/ errors' # <<>>)
            => (sheet' = sheet /\ lastOp'.kind = "none") ]_vars

\* a save run stopped by the UF alone: date, times and amount are valid
C4_Witness ==
    /\ outcome = "invalid"
    /\ Failures(form) = {"E_UF"}
    /\ errors = <<"E_UF">>
    /\ lastOp.kind = "none"

\* C5: a save run reports every validation failure of the form in that run.
C5_AllFailuresReported ==
    outcome \in {"invalid", "saved", "failed"} => Failures(form) \subseteq Reported

----------------------------------------------------------------------------
(* Two sessions in append_row_to_sheet on the same tab: src/app.py 97-137.   *)
(* Each call to the spreadsheet (open, row_values, get, insert_row or        *)
(* append_row) is one step; the sessions interleave between calls.           *)

Writers == {1, 2}

WriterRec(w) ==
    IF w = 1
    THEN (T_Data :> StrVal(T_d5)) @@ (T_UF :> StrVal(T_SP)) @@ (T_CV :> IntVal(1))
    ELSE (T_Data :> StrVal(T_d6)) @@ (T_UF :> StrVal(T_RJ)) @@ (T_CV :> IntVal(2))

NoLocals == [rc |-> 0, row |-> <<>>, first_empty_row |-> 0, writesSeen |-> 0]

WritesDone == Cardinality({w \in Writers : wpc[w] = "done"})

InitRace ==
    /\ sheet \in InitialSheets
    /\ sheet0 = sheet
    /\ wpc = [w \in Writers |-> "start"]
    /\ wloc = [w \in Writers |-> NoLocals]
    /\ dataset = NoDataset
    /\ lastOp = NoOp
    /\ CBIdle
    /\ FormIdle
    /\ ReportIdle
    /\ AuxIdle

\* ws = sh.worksheet(sheet_name): the worksheet's properties, row_count among
\* them, are fetched here
OpenWorksheet(w) ==
    /\ wpc[w] = "start"
    /\ wloc' = [wloc EXCEPT ![w].rc = RowCount(sheet)]
    /\ wpc' = [wpc EXCEPT ![w] = "opened"]
    /\ UNCHANGED <<sheet, sheet0, lastOp, cbVars, formVars, dataset, repVars, auxVars>>

\* headers = ws.row_values(1), the error for no header, and the row
ReadHeaders(w) ==
    /\ wpc[w] = "opened"
    /\ IF Headers(sheet) = <<>>
       THEN /\ wpc' = [wpc EXCEPT ![w] = "error"]
            /\ UNCHANGED wloc
       ELSE /\ wpc' = [wpc EXCEPT ![w] = "built"]
            /\ wloc' = [wloc EXCEPT ![w].row = BuildRow(Headers(sheet), WriterRec(w))]
    /\ UNCHANGED <<sheet, sheet0, lastOp, cbVars, formVars, dataset, repVars, auxVars>>

\* col_a = ws.get(...) and the scan for the first empty row
ScanColumnA(w) ==
    /\ wpc[w] = "built"
    /\ wloc' = [wloc EXCEPT
                  ![w].first_empty_row =
                      FirstEmptyRow(PadColA(GetColA(sheet, wloc[w].rc), wloc[w].rc)),
                  ![w].writesSeen = WritesDone]
    /\ wpc' = [wpc EXCEPT ![w] = "scanned"]
    /\ UNCHANGED <<sheet, sheet0, lastOp, cbVars, formVars, dataset, repVars, auxVars>>

\* ws.append_row(row) or ws.insert_row(row, index=first_empty_row)
WriteRow(w) ==
    /\ wpc[w] = "scanned"
    /\ sheet' = IF wloc[w].first_empty_row = 0
                THEN AppendRowApi(sheet, wloc[w].row)
                ELSE InsertRowApi(sheet, wloc[w].row, wloc[w].first_empty_row)
    /\ wpc' = [wpc EXCEPT ![w] = "done"]
    /\ UNCHANGED <<wloc, sheet0, lastOp, cbVars, formVars, dataset, repVars, auxVars>>

NextRace ==
    \E w \in Writers :
        \/ OpenWorksheet(w)
        \/ ReadHeaders(w)
        \/ ScanColumnA(w)
        \/ WriteRow(w)

SpecRace == InitRace /\ [][NextRace]_vars

----------------------------------------------------------------------------
(* Claims about two sessions (SpecRace) *)

BothDone == \A w \in Writers : wpc[w] = "done"

\* both ran the gap scan before either wrote, and chose the same row
RacedOnSameRow ==
    /\ BothDone
    /\ \A w \in Writers : wloc[w].writesSeen = 0
    /\ wloc[1].first_empty_row = wloc[2].first_empty_row

HoldsRow(sh, w) == \E r \in 2..Len(sh) : sh[r] = PadRow(wloc[w].row, GridWidth(sh))

\* sh without its rows i and j
WithoutRows(sh, i, j) == SelectSeq([r \in 1..Len(sh) |-> IF r \in {i, j} THEN <<"-">> ELSE sh[r]],
                                   LAMBDA x : x # <<"-">>)

IsBlankRow(row) == \A c \in 1..Len(row) : IsBlankCell(row[c])

\* the rows of sh that hold something, in order
DataRowsOf(sh) == SelectSeq(sh, LAMBDA row : ~IsBlankRow(row))

LiveRow(w) == ~IsBlankRow(wloc[w].row)

----------------------------------------------------------------------------
(* read_sheet: src/app.py 587-628 *)

MaxOf(S) == CHOOSE x \in S : \A y \in S : y <= x

\* ws.get_all_values(): the rows down to the last one that holds something,
\* every row filled up to the longest of them
GetAllValues(sh) ==
    LET last == MaxOf({0} \cup {r \in 1..Len(sh) : TrimTrailingEmpty(sh[r]) # <<>>})
        w    == MaxOf({0} \cup {Len(TrimTrailingEmpty(sh[r])) : r \in 1..last})
    IN  [r \in 1..last |-> PadRow(TrimTrailingEmpty(sh[r]), w)]

\* headers = [h.strip() for h in values[0]], then the empty ones at the end popped
RECURSIVE PopEmptyTail(_)
PopEmptyTail(hs) ==
    IF hs = <<>> THEN <<>>
    ELSE IF hs[Len(hs)] = <<>> THEN PopEmptyTail(SubSeq(hs, 1, Len(hs) - 1)) ELSE hs

ReadHeadersOf(values) == PopEmptyTail([i \in 1..Len(values[1]) |-> Strip(values[1][i])])

\* r = r[:n] + [""] * max(0, n - len(r))
NormRow(r, n) == [i \in 1..n |-> IF i <= Len(r) THEN r[i] ELSE <<>>]

\* all(str(x).strip() == "" for x in r)
AllCellsBlank(r) == \A i \in 1..Len(r) : AllSpace(r[i])

\* reading that ends at the first blank row, as get_all_records may
RECURSIVE NormRows_StopAtBlank(_, _)
NormRows_StopAtBlank(rows, n) ==
    IF rows = <<>> \/ AllCellsBlank(NormRow(rows[1], n)) THEN <<>>
    ELSE <<NormRow(rows[1], n)>> \o NormRows_StopAtBlank(Tail(rows), n)

\* the loop over rows: blank rows are passed over, the others kept in order
RECURSIVE NormRows(_, _)
NormRows(rows, n) ==
    IF rows = <<>> THEN <<>>
    ELSE LET r == NormRow(rows[1], n)
         IN  (IF AllCellsBlank(r) THEN <<>> ELSE <<r>>) \o NormRows(Tail(rows), n)

\* pd.DataFrame(norm_rows, columns=headers): the index is 0..len-1
DataFrame(rows, columns) ==
    [read |-> TRUE, columns |-> columns, rows |-> rows,
     index |-> [i \in 1..Len(rows) |-> i - 1]]

read_sheet(sh) ==
    LET values == GetAllValues(sh)
    IN  IF Len(values) < 2 THEN DataFrame(<<>>, <<>>)
        ELSE LET headers == ReadHeadersOf(values)
             IN  DataFrame(NormRows(Tail(values), Len(headers)), headers)

ReadRows == DataRows \cup { <<<<>>, <<>>, T_RJ>> }

ReadSheets ==
    {<<h>> \o body : h \in HeaderRows,
                     body \in UNION {SeqsOfLen(ReadRows, n) : n \in 0..MaxDataRows}}

InitRead ==
    /\ sheet \in ReadSheets
    /\ dataset = NoDataset
    /\ lastOp = NoOp
    /\ CBIdle
    /\ FormIdle
    /\ ReportIdle
    /\ AuxIdle
    /\ wpc = <<>>
    /\ wloc = <<>>
    /\ sheet0 = <<>>

\* df_raw = read_sheet(SPREADSHEET_ID, SHEET_NAME), on every run of the report page
ReadSheet ==
    /\ dataset' = read_sheet(sheet)
    /\ UNCHANGED <<sheet, lastOp, cbVars, formVars, raceVars, repVars, auxVars>>

NextRead == ReadSheet

SpecRead == InitRead /\ [][NextRead]_vars

----------------------------------------------------------------------------
(* Claims about read_sheet (SpecRead) *)

\* the last column of the sheet whose header is not blank
NamedWidth(sh) == MaxOf({0} \cup {c \in 1..Len(sh[1]) : ~AllSpace(sh[1][c])})

\* the source rows after the header with something in any cell
NonEmptySourceRows(sh) ==
    {r \in 2..Len(sh) : \E c \in 1..Len(sh[r]) : ~AllSpace(sh[r][c])}

\* the source rows after the header with something under a named column
NamedSourceRows(sh) ==
    {r \in 2..Len(sh) : \E c \in 1..NamedWidth(sh) : ~AllSpace(sh[r][c])}

\* the members of a set of row numbers, ascending
RECURSIVE Ascending(_)
Ascending(S) ==
    IF S = {} THEN <<>>
    ELSE LET m == MinOf(S) IN <<m>> \o Ascending(S \ {m})

\* C9 as stated: the Dataset has as many rows as the source has rows, after the
\* header, with at least one cell that does not trim to empty.
C9_CountsNonEmptyRows ==
    dataset.read => Len(dataset.rows) = Cardinality(NonEmptySourceRows(sheet))

\* C9 amended: the Dataset holds exactly the source rows, after the header,
\* that have a non-blank cell under the named columns (up to the last header
\* that is not blank), cut to those columns, in source order.
C9_KeepsNamedRowsInOrder ==
    dataset.read =>
        LET src == Ascending(NamedSourceRows(sheet))
        IN  dataset.rows =
                [i \in 1..Len(src) |-> SubSeq(sheet[src[i]], 1, NamedWidth(sheet))]

\* a blank row between two data rows was read as 2 rows
C9_Witness ==
    /\ dataset.read
    /\ Len(sheet) = 4
    /\ NamedSourceRows(sheet) = {2, 4}
    /\ NonEmptySourceRows(sheet) = {2, 4}
    /\ Len(dataset.rows) = 2

\* C10: every row kept in the Dataset is identified by its source row number:
\* the frame's index (from 0) and the sheet's row number (data from row 2)
\* stay two apart whatever gap rows precede the row.
C10_IndexIsSourceRow ==
    dataset.read =>
        LET src == Ascending(NamedSourceRows(sheet))
        IN  \A i \in 1..Len(dataset.rows) :
                i <= Len(src) /\ dataset.index[i] + 2 = src[i]

----------------------------------------------------------------------------
(* The report page: src/app.py 931-1154 *)

T_Cliente == <<"C", "l", "i", "e", "n", "t", "e">>
T_Status == <<"S", "t", "a", "t", "u", "s">>
T_Motivo == <<"M", "o", "t", "i", "v", "o">>

\* safe_col(df, col)
safe_col(df, col) == \E i \in 1..Len(df.columns) : df.columns[i] = col

\* first_existing_col(df, candidates); <<>> for None
RECURSIVE first_existing_col(_, _)
first_existing_col(df, candidates) ==
    IF candidates = <<>> THEN <<>>
    ELSE IF safe_col(df, candidates[1]) THEN candidates[1]
    ELSE first_existing_col(df, Tail(candidates))

\* df[col] at the row in position r (index label r - 1)
Cell(df, r, col) ==
    df.rows[r][CHOOSE i \in 1..Len(df.columns) : df.columns[i] = col]

\* to_date_series: pd.to_datetime(str(x).strip(), dayfirst=True, errors="coerce")
\* for cells written as day/month/year; NaT (ok FALSE) for the others
to_date(cell) == StrpDate(Strip(cell))

\* df = df_raw.copy() with its two added columns: df["_data"] (pd.NaT when
\* there is no Data column) and df["_cliente_base"]: lines 938-944 and 1018
WithAddedColumns(df_raw) ==
    [read |-> df_raw.read, columns |-> df_raw.columns, rows |-> df_raw.rows,
     index |-> df_raw.index,
     data |-> [r \in 1..Len(df_raw.rows) |->
                  IF safe_col(df_raw, T_Data) THEN to_date(Cell(df_raw, r, T_Data))
                  ELSE NoDate],
     cbase |-> [r \in 1..Len(df_raw.rows) |->
                  IF safe_col(df_raw, T_Cliente) THEN cliente_base(Cell(df_raw, r, T_Cliente))
                  ELSE <<>>]]

\* df["_data"] for the row in position r
DataOf(df, r) == df.data[r]

\* has_valid_dates = df["_data"].notna().any()
has_valid_dates(df) == \E r \in 1..Len(df.rows) : DataOf(df, r).ok

\* data_ref_dt = df["_data"].dropna().max(): the latest date, as <<y, m, d>>
DateLeq(a, b) ==
    \/ a.y < b.y
    \/ a.y = b.y /\ a.m < b.m
    \/ a.y = b.y /\ a.m = b.m /\ a.d <= b.d

data_ref_dt(df) ==
    LET ds == {DataOf(df, r) : r \in {q \in 1..Len(df.rows) : DataOf(df, q).ok}}
    IN  CHOOSE d \in ds : \A e \in ds : DateLeq(e, d)

\* years and, for a year, months_avail of the custom period's two selectboxes
YearsAvail(df) == {DataOf(df, r).y : r \in {q \in 1..Len(df.rows) : DataOf(df, q).ok}}

MonthsAvail(df, y) ==
    {DataOf(df, r).m : r \in {q \in 1..Len(df.rows) : DataOf(df, q).ok /\ DataOf(df, q).y = y}}

\* year_default and m_default
YearDefault(df) ==
    IF data_ref_dt(df).y \in YearsAvail(df) THEN data_ref_dt(df).y ELSE MaxOf(YearsAvail(df))

MonthDefault(df, y) ==
    IF data_ref_dt(df).m \in MonthsAvail(df, y) THEN data_ref_dt(df).m
    ELSE MaxOf(MonthsAvail(df, y))

P_Mes == "Este mês"
P_Ano == "Este ano"
P_Custom == "Personalizado"

\* the period test of one row: lines 1057-1077
InPeriod(d, fs) ==
    IF fs.period = P_Mes THEN d.ok /\ d.y = fs.today.y /\ d.m = fs.today.m
    ELSE IF fs.period = P_Ano THEN d.ok /\ d.y = fs.today.y
    ELSE IF fs.year = 0 \/ fs.month = 0
         THEN d.ok /\ d.y = fs.today.y /\ d.m = fs.today.m
         ELSE d.ok /\ d.y = fs.year /\ d.m = fs.month

\* the period filter deciding on the rows it is given, not on the whole frame
PeriodFilter_Local(df, hvd, fs, kept) ==
    IF \E i \in 1..Len(kept) : DataOf(df, kept[i]).ok
    THEN SelectSeq(kept, LAMBDA r : InPeriod(DataOf(df, r), fs))
    ELSE kept

\* lines 1054-1077: kept holds the positions of the rows of df_f
PeriodFilter(df, hvd, fs, kept) ==
    IF hvd THEN SelectSeq(kept, LAMBDA r : InPeriod(DataOf(df, r), fs))
    ELSE kept

\* apply_multiselect: df_in[df_in[col].astype(str).isin(selected)]
apply_multiselect(df, kept, col, selected) ==
    IF selected = {} \/ ~safe_col(df, col) THEN kept
    ELSE SelectSeq(kept, LAMBDA r : Cell(df, r, col) \in selected)

\* multiselect_filter's options: the values of the column as they are
MultiselectOptions(df, col) ==
    IF ~safe_col(df, col) THEN {}
    ELSE {Cell(df, r, col) : r \in 1..Len(df.rows)}

\* the client filter comparing the raw name
ClienteFilter_Raw(df, kept, selected) ==
    IF selected = {} \/ ~safe_col(df, T_Cliente) THEN kept
    ELSE SelectSeq(kept, LAMBDA r : Cell(df, r, T_Cliente) \in selected)

\* lines 1091-1093
ClienteFilter(df, kept, selected) ==
    IF selected = {} \/ ~safe_col(df, T_Cliente) THEN kept
    ELSE SelectSeq(kept, LAMBDA r : df.cbase[r] \in selected)

\* cliente_opts: the base names that are not blank
ClienteOptions(df) ==
    IF ~safe_col(df, T_Cliente) THEN {}
    ELSE {df.cbase[r] : r \in 1..Len(df.rows)} \ {<<>>}

\* one of the filters of lines 1052-1101, by name
ApplyOne(name, df, fs, kept) ==
    CASE name = "period"  -> PeriodFilter(df, has_valid_dates(df), fs, kept)
      [] name = "uf"      -> apply_multiselect(df, kept, T_UF, fs.uf)
      [] name = "cliente" -> ClienteFilter(df, kept, fs.cliente)

RECURSIVE ApplyInOrder(_, _, _, _)
ApplyInOrder(order, df, fs, kept) ==
    IF order = <<>> THEN kept
    ELSE ApplyInOrder(Tail(order), df, fs, ApplyOne(order[1], df, fs, kept))

\* the order of the code: period, the multiselects, the client
CodeOrder == <<"period", "uf", "cliente">>

\* df_f: the positions of the rows left by all the filters
ApplyFilters(df, fs) ==
    ApplyInOrder(CodeOrder, df, fs, [i \in 1..Len(df.rows) |-> i])

----------------------------------------------------------------------------
(* The figures of the report: src/app.py 198-247, 306-326, 562-584, 1106-1146 *)

\* the dash shown for a figure that is undefined (U+2014), as one character
Dash == <<"--">>

\* \w for the texts read here: letters, digits and the underscore
IsWordChar(c) == IsDigit(c) \/ IsLetter(c) \/ c = "_"

\* c is of the class \d, \s or \w
InClass(c, cls) ==
    CASE cls = "d" -> IsDigit(c)
      [] cls = "s" -> IsSpace(c)
      [] cls = "w" -> IsWordChar(c)

\* the end of the run of characters of a class that starts at i (i - 1 if none)
RECURSIVE RunEnd(_, _, _)
RunEnd(s, i, cls) ==
    IF i > Len(s) \/ ~InClass(s[i], cls) THEN i - 1 ELSE RunEnd(s, i + 1, cls)

\* the starts of the maximal runs of digits of s
DigitRunStarts(s) ==
    {i \in 1..Len(s) : IsDigit(s[i]) /\ (i = 1 \/ ~IsDigit(s[i - 1]))}

\* the run of digits starting at i is followed by  \s*(unit)\b
FollowedByUnit(s, i, units) ==
    LET j == RunEnd(s, i, "d")
        k == RunEnd(s, j + 1, "s") + 1
        l == RunEnd(s, k, "w")
    IN  SubSeq(s, k, l) \in units

NoNumber == [ok |-> FALSE, n |-> 0]

\* re.search(r"(\d+(?:[.,]\d+)?)\s*(unit)\b", s) for a text with no "." or ",":
\* the leftmost number that the unit follows
SearchNumberUnit(s, units) ==
    LET at == {i \in DigitRunStarts(s) : FollowedByUnit(s, i, units)}
    IN  IF at = {} THEN NoNumber
        ELSE [ok |-> TRUE, n |-> TextToNat(SubSeq(s, MinOf(at), RunEnd(s, MinOf(at), "d")))]

\* re.search(r"(\d+(?:[.,]\d+)?)", s) for a text with no "." or ","
SearchNumber(s) ==
    IF DigitRunStarts(s) = {} THEN NoNumber
    ELSE LET i == MinOf(DigitRunStarts(s))
         IN  [ok |-> TRUE, n |-> TextToNat(SubSeq(s, i, RunEnd(s, i, "d")))]

HourUnits == { <<"h">>, <<"h", "o", "r", "a">>, <<"h", "o", "r", "a", "s">> }

MinuteUnits == { <<"m">>, <<"m", "i", "n">>, <<"m", "i", "n", "s">>,
                 <<"m", "i", "n", "u", "t", "o">>, <<"m", "i", "n", "u", "t", "o", "s">> }

\* re.fullmatch(r"\d{1,2}:\d{2}(:\d{2})?", s)
IsClockText(s) ==
    LET parts == SplitOn(s, ":")
    IN  /\ Len(parts) \in {2, 3}
        /\ Len(parts[1]) \in {1, 2} /\ AllDigit(parts[1])
        /\ \A i \in 2..Len(parts) : Len(parts[i]) = 2 /\ AllDigit(parts[i])

NoDuration == [ok |-> FALSE, secs |-> 0]

\* a reading without the "HH:MM" branch: the text goes on to the unit and
\* first-number searches
parse_duration_NoClock(value) ==
    LET s  == PyLower(Strip(value))
        mh == SearchNumberUnit(s, HourUnits)
        mm == SearchNumberUnit(s, MinuteUnits)
        mn == SearchNumber(s)
    IN  IF s = <<>> THEN NoDuration
        ELSE IF mh.ok \/ mm.ok THEN [ok |-> TRUE, secs |-> mh.n * 3600 + mm.n * 60]
        ELSE IF mn.ok THEN [ok |-> TRUE, secs |-> mn.n * 60]
        ELSE NoDuration

\* _parse_duration_to_minutes for a str; the minutes are kept as seconds
\* (minutes * 60) so that the sec / 60.0 of "HH:MM:SS" stays whole
parse_duration(value) ==
    LET s  == PyLower(Strip(value))
        mh == SearchNumberUnit(s, HourUnits)
        mm == SearchNumberUnit(s, MinuteUnits)
        mn == SearchNumber(s)
    IN  IF s = <<>> THEN NoDuration
        ELSE IF IsClockText(s)
        THEN LET parts == SplitOn(s, ":")
             IN  [ok |-> TRUE,
                  secs |-> TextToNat(parts[1]) * 3600 + TextToNat(parts[2]) * 60
                           + (IF Len(parts) = 3 THEN TextToNat(parts[3]) ELSE 0)]
        ELSE IF mh.ok \/ mm.ok THEN [ok |-> TRUE, secs |-> mh.n * 3600 + mm.n * 60]
        ELSE IF mn.ok THEN [ok |-> TRUE, secs |-> mn.n * 60]
        ELSE NoDuration

\* round(num / den) of Python: to the nearest, a half to the even one
RoundHalfEven(num, den) ==
    LET q == num \div den
        r == num % den
    IN  IF 2 * r < den THEN q
        ELSE IF 2 * r > den THEN q + 1
        ELSE IF q % 2 = 0 THEN q ELSE q + 1

\* format_minutes_pt for a number of minutes num / den that is not NaN
format_minutes_pt(num, den) ==
    LET total_minutes == RoundHalfEven(num, den)
        h == total_minutes \div 60
        m == total_minutes % 60
    IN  IF h > 0 /\ m > 0
        THEN NatToText(h) \o <<"h", " ", "e", " ">> \o NatToText(m) \o <<" ", "m", "i", "n">>
        ELSE IF h > 0 THEN NatToText(h) \o <<"h">>
        ELSE NatToText(m) \o <<" ", "m", "i", "n">>

RECURSIVE SumSeq(_)
SumSeq(q) == IF q = <<>> THEN 0 ELSE q[1] + SumSeq(Tail(q))

\* the mean where a duration that cannot be read counts as 0 minutes
ParsedSecs_Zero(df, kept) ==
    [i \in 1..Len(kept) |-> parse_duration(Cell(df, kept[i], T_Duracao)).secs]

\* df_f[COL_DURACAO].map(_parse_duration_to_minutes).dropna(), in seconds
ParsedSecs(df, kept) ==
    LET all == [i \in 1..Len(kept) |-> parse_duration(Cell(df, kept[i], T_Duracao))]
        ok  == SelectSeq(all, LAMBDA d : d.ok)
    IN  [i \in 1..Len(ok) |-> ok[i].secs]

\* tempo_medio_str: lines 1108-1111
tempo_medio_str(df, kept) ==
    IF ~safe_col(df, T_Duracao) THEN Dash
    ELSE LET mins == ParsedSecs(df, kept)
         IN  IF mins = <<>> THEN Dash
             ELSE format_minutes_pt(SumSeq(mins), 60 * Len(mins))

\* how many of the texts of q are v
CountOf(q, v) == Cardinality({i \in 1..Len(q) : q[i] = v})

\* mode_value: series.dropna().astype(str).str.strip(), then the first label of
\* value_counts(): the most frequent text, of several the one met first
mode_value(q) ==
    LET st == [i \in 1..Len(q) |-> Strip(q[i])]
    IN  IF st = <<>> THEN Dash
        ELSE LET best == MaxOf({CountOf(st, st[i]) : i \in 1..Len(st)})
             IN  st[MinOf({i \in 1..Len(st) : CountOf(st, st[i]) = best})]

Column(df, kept, col) == [i \in 1..Len(kept) |-> Cell(df, kept[i], col)]

\* modalidade_mais_comum: line 1113
modalidade_mais_comum(df, kept) ==
    IF safe_col(df, T_Modalidade) THEN mode_value(Column(df, kept, T_Modalidade)) ELSE Dash

\* float(v) of a text that to_numeric read, in cents; for at most two decimals
ToCents(t) ==
    LET neg   == t # <<>> /\ t[1] = "-"
        body  == IF t # <<>> /\ t[1] \in {"+", "-"} THEN Tail(t) ELSE t
        parts == SplitOn(body, ".")
        frac  == IF Len(parts) = 2 THEN Take(parts[2] \o <<"0", "0">>, 2) ELSE <<"0", "0">>
        abs   == TextToNat(parts[1]) * 100 + TextToNat(frac)
    IN  IF neg THEN 0 - abs ELSE abs

\* faturamento_total, in cents: lines 1134-1137
faturamento_total(df, kept) ==
    IF ~safe_col(df, T_Valor) THEN 0
    ELSE LET all == [i \in 1..Len(kept) |-> parse_brl_money(Cell(df, kept[i], T_Valor))]
             ok  == SelectSeq(all, LAMBDA v : v.ok)
         IN  SumSeq([i \in 1..Len(ok) |-> ToCents(ok[i].text)])

\* total_minutes_sum, in seconds: lines 1140-1143
total_minutes_sum(df, kept) ==
    IF ~safe_col(df, T_Duracao) THEN 0 ELSE SumSeq(ParsedSecs(df, kept))

NoRatio == [ok |-> FALSE, num |-> 0, den |-> 1]

\* valor_por_hora with 0.0 where there is no hour to divide by
valor_por_hora_Zero(cents, secs) ==
    IF secs > 0 THEN [ok |-> TRUE, num |-> cents * 36, den |-> secs]
    ELSE [ok |-> TRUE, num |-> 0, den |-> 1]

\* horas_totais and valor_por_hora: lines 1145-1146; None is ok FALSE, and
\* reais per hour are (cents / 100) / (secs / 3600) = cents * 36 / secs
valor_por_hora(cents, secs) ==
    IF secs > 0 THEN [ok |-> TRUE, num |-> cents * 36, den |-> secs] ELSE NoRatio

\* s.str.contains(sub)
Contains(t, sub) ==
    \E i \in 1..(Len(t) - Len(sub) + 1) : SubSeq(t, i, i + Len(sub) - 1) = sub

ReagCandidates ==
    << <<"R", "e", "a", "g", "e", "n", "d", "a", "m", "e", "n", "t", "o">>,
       <<"R", "e", "a", "g", "e", "n", "d", "a", "d", "o">>,
       <<"R", "e", "a", "g", "e", "n", "d", "a", "m", "e", "n", "t", "o", "s">>,
       <<"R", "e", "a", "g", "e", "n", "d", "a", "r">>,
       T_Status,
       T_Motivo,
       <<"O", "b", "s", "e", "r", "v", "a", "ç", "ã", "o">>,
       <<"O", "b", "s", "e", "r", "v", "a", "c", "a", "o">> >>

T_reagend == <<"r", "e", "a", "g", "e", "n", "d">>

ReagWords == { <<"s", "i", "m">>, <<"y", "e", "s">>, <<"t", "r", "u", "e">>, <<"1">> }

is_reag(cell) == Contains(PyLower(cell), T_reagend) \/ PyLower(cell) \in ReagWords

\* the rate over the candidate column that comes first in the sheet
reagendamento_col_BySheet(df) ==
    LET at == {i \in 1..Len(df.columns) :
                  \E k \in 1..Len(ReagCandidates) : ReagCandidates[k] = df.columns[i]}
    IN  IF at = {} THEN <<>> ELSE df.columns[MinOf(at)]

reagendamento_col(df) == first_existing_col(df, ReagCandidates)

\* get_reagendamento_rate(df_f): None is ok FALSE, else positives over rows
get_reagendamento_rate(df, kept) ==
    LET col == reagendamento_col(df)
    IN  IF col = <<>> THEN NoRatio
        ELSE IF Len(kept) = 0 THEN NoRatio
        ELSE [ok |-> TRUE,
              num |-> Cardinality({i \in 1..Len(kept) : is_reag(Cell(df, kept[i], col))}),
              den |-> Len(kept)]

\* cliente_counts: the base names that are not blank, one per row: lines 1296-1314
cliente_counts(df, kept) ==
    IF ~safe_col(df, T_Cliente) THEN <<>>
    ELSE SelectSeq([i \in 1..Len(kept) |-> Strip(df.cbase[kept[i]])],
                   LAMBDA c : c # <<>>)

----------------------------------------------------------------------------
(* One run of the report page over the sheet: src/app.py 931-1154 *)

MaxFrameRows == 2

\* header h with the column named old under another name
Renamed(h, old, new) == [i \in 1..Len(h) |-> IF h[i] = old THEN new ELSE h[i]]

T_Dia == <<"D", "i", "a">>
T_Tempo == <<"T", "e", "m", "p", "o">>
T_Preco == <<"P", "r", "e", "c", "o">>

\* sheets for the filters
HFilter == <<T_Data, T_UF, T_Cliente>>

FilterHeaders == { HFilter, Renamed(HFilter, T_Data, T_Dia) }

\* Data, UF, Cliente
FilterRows ==
    { <<<<"0", "5", "/", "0", "1", "/", "2", "0", "2", "6">>, <<"S", "P">>, <<"A", " ", "0", "1">>>>,
      <<<<"1", "0", "/", "0", "2", "/", "2", "0", "2", "6">>, <<" ", "S", "P">>, <<"A", "-", "0", "2">>>>,
      <<<<"a", "b", "c">>, <<"R", "J">>, <<>>>>,
      <<<<"0", "5", "/", "0", "1", "/", "2", "0", "2", "5">>, <<"R", "J">>, <<"B">>>> }

\* a tab without any value in its one row
EmptyTab == << <<<<>>, <<>>, <<>>>> >>

ReportSheets ==
    {EmptyTab} \cup
    {<<h>> \o body : h \in FilterHeaders,
                     body \in UNION {SeqsOfLen(FilterRows, n) : n \in 0..MaxFrameRows}}

\* sheets for the figures; Motivo stands before Status in the sheet
HFigures == <<T_Data, T_Modalidade, T_Duracao, T_Valor, T_Motivo, T_Status>>

HOther == <<T_Dia, <<"T", "i", "p", "o">>, T_Tempo, T_Preco,
            <<"N", "o", "t", "a">>, <<"F", "a", "s", "e">> >>

FiguresHeaders ==
    { HFigures,
      Renamed(HFigures, T_Duracao, T_Tempo),
      Renamed(HFigures, T_Valor, T_Preco),
      HOther }

\* Data, Modalidade, Duração, Valor da instalação, Motivo, Status
FiguresRows ==
    { <<<<"0", "5", "/", "0", "1", "/", "2", "0", "2", "6">>, <<"R", "e", "m", "o", "t", "a">>, <<"0", "1", ":", "3", "0">>, <<"5", "0", "0", ",", "0", "0">>, <<"x">>, <<"R", "e", "a", "g", "e", "n", "d", "a", "d", "o">>>>,
      <<<<"0", "6", "/", "0", "1", "/", "2", "0", "2", "6">>, <<"R", "e", "m", "o", "t", "a">>, <<>>, <<"5", "0", "0", ",", "0", "0">>, <<"s", "i", "m">>, <<"O", "K">>>>,
      <<<<"1", "0", "/", "0", "2", "/", "2", "0", "2", "6">>, <<"P", "r", "e", "s", "e", "n", "c", "i", "a", "l">>, <<"0", "0", ":", "4", "5">>, <<"1", "0", "0", ",", "0", "0">>, <<>>, <<"s", "i", "m">>>>,
      <<<<"a", "b", "c">>, <<>>, <<"a", "b", "c">>, <<"a", "b", "c">>, <<"R", "e", "a", "g", "e", "n", "d", "a", "r">>, <<>>>>,
      <<<<"0", "5", "/", "0", "1", "/", "2", "0", "2", "5">>, <<"P", "r", "e", "s", "e", "n", "c", "i", "a", "l">>, <<"9", "0">>, <<>>, <<"O", "K">>, <<"1">>>> }

FiguresSheets ==
    {<<h>> \o body : h \in FiguresHeaders,
                     body \in UNION {SeqsOfLen(FiguresRows, n) : n \in 0..MaxFrameRows}}

\* today_date = pd.Timestamp.today().date(): the month the report is opened in
TodayYM == [y |-> 2026, m |-> 1]

\* the widgets as a first run of the page shows them
DefaultSpec == [period |-> P_Mes, year |-> 0, month |-> 0, uf |-> {}, cliente |-> {},
                today |-> TodayYM]

\* a read that is kept and used again by the later runs
FetchSheet_Cached(sh, prev) == IF prev.read THEN prev ELSE read_sheet(sh)

\* df_raw = read_sheet(SPREADSHEET_ID, SHEET_NAME): nothing is kept between runs
FetchSheet(sh, prev) == read_sheet(sh)

\* the script from line 938 on: the added columns, the filters, the figures
Figures(df_raw, fs) ==
    LET df == WithAddedColumns(df_raw)
        kept == ApplyFilters(df, fs)
        cents == faturamento_total(df, kept)
        secs  == total_minutes_sum(df, kept)
    IN  [stage |-> "shown",
         df |-> df,
         kept |-> kept,
         total_instalacoes |-> Len(kept),
         tempo_medio_str |-> tempo_medio_str(df, kept),
         modalidade_mais_comum |-> modalidade_mais_comum(df, kept),
         reag_rate |-> get_reagendamento_rate(df, kept),
         faturamento_total |-> cents,
         total_minutes_sum |-> secs,
         valor_por_hora |-> valor_por_hora(cents, secs),
         cliente_counts |-> cliente_counts(df, kept)]

\* a page that goes on to the filters and figures over an empty frame
RenderRun_NoStop(df_raw, fs) == Figures(df_raw, fs)

\* the script from line 934 on, for the frame df_raw and the selections fs:
\* if df_raw.empty: st.warning(...); st.stop()
RenderRun(df_raw, fs) ==
    IF df_raw.rows = <<>> THEN [stage |-> "no_data"]
    ELSE Figures(df_raw, fs)

\* the record of a saved form, as values_by_header holds it
ReportRec ==
    (T_Data :> StrVal(<<"0", "7", "/", "0", "1", "/", "2", "0", "2", "6">>))
    @@ (T_UF :> StrVal(T_SP))
    @@ (T_Cliente :> StrVal(<<"A">>))
    @@ (T_Modalidade :> StrVal(T_Remota))
    @@ (T_Duracao :> StrVal(<<"0", "2", ":", "0", "0">>))
    @@ (T_Valor :> StrVal(<<>>))
    @@ (T_Status :> StrVal(<<"O", "K">>))

ReportStart ==
    /\ dataset = NoDataset
    /\ fspec = DefaultSpec
    /\ report = NoReport
    /\ AuxIdle
    /\ lastOp = NoOp
    /\ CBIdle
    /\ form = NoForm
    /\ errors = <<>>
    /\ outcome = "none"
    /\ wpc = <<>>
    /\ wloc = <<>>
    /\ sheet0 = <<>>

InitReport ==
    /\ sheet \in ReportSheets
    /\ ReportStart

InitFigures ==
    /\ sheet \in FiguresSheets
    /\ ReportStart

\* sel with v taken out if it is there, put in if it is not
Toggle(sel, v) == IF v \in sel THEN sel \ {v} ELSE sel \cup {v}

\* the Período radio; Personalizado shows its two selectboxes at their defaults
PeriodChoices ==
    {IF p = P_Custom /\ has_valid_dates(report.df)
     THEN [fspec EXCEPT !.period = p,
                        !.year = YearDefault(report.df),
                        !.month = MonthDefault(report.df, YearDefault(report.df))]
     ELSE [fspec EXCEPT !.period = p, !.year = 0, !.month = 0]
        : p \in {P_Mes, P_Ano, P_Custom} \ {fspec.period}}

\* the Ano selectbox: the months on offer change, Mês goes to its default
YearChoices ==
    IF fspec.period = P_Custom /\ has_valid_dates(report.df)
    THEN {[fspec EXCEPT !.year = y, !.month = MonthDefault(report.df, y)]
             : y \in YearsAvail(report.df) \ {fspec.year}}
    ELSE {}

\* the Mês selectbox
MonthChoices ==
    IF fspec.period = P_Custom /\ has_valid_dates(report.df)
    THEN {[fspec EXCEPT !.month = m] : m \in MonthsAvail(report.df, fspec.year) \ {fspec.month}}
    ELSE {}

\* the UF multiselect: one option picked or dropped
UFChoices ==
    {[fspec EXCEPT !.uf = Toggle(fspec.uf, v)] : v \in MultiselectOptions(report.df, T_UF)}

\* the Cliente multiselect: one option picked or dropped
ClienteChoices ==
    {[fspec EXCEPT !.cliente = Toggle(fspec.cliente, v)] : v \in ClienteOptions(report.df)}

\* what the widgets can hold at the next run: their defaults when the page is
\* opened, else the last selections with one widget changed
WidgetChoices ==
    IF report.stage \in {"none", "form"} THEN {DefaultSpec}
    ELSE IF report.stage = "shown"
    THEN PeriodChoices \cup YearChoices \cup MonthChoices \cup UFChoices \cup ClienteChoices
    ELSE {}

\* a run of the report page, from the read of the sheet to the figures
RunReport ==
    /\ \E fs \in WidgetChoices :
           /\ fspec' = fs
           /\ \E df_raw \in {FetchSheet(sheet, dataset)} :
                  /\ dataset' = df_raw
                  /\ \E shown \in {RenderRun(df_raw, fs)} : report' = shown
    /\ UNCHANGED <<sheet, lastOp, cbVars, formVars, raceVars, auxVars>>

\* CADASTRAR INSTALAÇÃO and a form saved in the sheet: the page stops at the
\* form, the report's widgets are not drawn and lose their selections
CadastrarInstalacao ==
    /\ report.stage \in {"shown", "no_data"}
    /\ Len(sheet) < MaxFrameRows + 2
    /\ \E r \in {append_row_to_sheet(sheet, ReportRec)} :
           /\ r.kind # "error"
           /\ sheet' = r.sheet
           /\ lastOp' = [kind |-> r.kind, index |-> r.index, row |-> r.row,
                         rec |-> ReportRec, pre |-> sheet]
    /\ fspec' = DefaultSpec
    /\ report' = [stage |-> "form"]
    /\ UNCHANGED <<dataset, cbVars, formVars, raceVars, auxVars>>

NextReport ==
    \/ RunReport
    \/ CadastrarInstalacao

SpecReport == InitReport /\ [][NextReport]_vars

SpecFigures == InitFigures /\ [][NextReport]_vars

----------------------------------------------------------------------------
(* Claims about the filters of the report (SpecReport) *)

Shown == report.stage = "shown"

\* the positions of all the rows of the frame
AllRows == [i \in 1..Len(dataset.rows) |-> i]

\* the cell of the frame as read, for a row position
RawCell(r, col) == Cell(dataset, r, col)

\* C11: with a period selected (one always is: Este mês, Este ano or
\* Personalizado) no row whose date cell cannot be parsed is in the filtered
\* result, whatever the Dataset.
C11_UnparsableDateExcluded ==
    Shown =>
        \A i \in 1..Len(report.kept) :
            /\ safe_col(dataset, T_Data)
            /\ to_date(RawCell(report.kept[i], T_Data)).ok

\* the rows left by the filters other than the one named
KeptByOthers(name) ==
    ApplyInOrder(SelectSeq(CodeOrder, LAMBDA n : n # name), report.df, fspec, AllRows)

\* C12: the UF multiselect with a non-empty selection keeps exactly the rows
\* whose cell, trimmed, is selected (a cell " SP" is kept when "SP" is
\* selected); an empty selection keeps every row.
C12_TrimmedMembership ==
    Shown =>
        report.kept =
            IF fspec.uf = {} \/ ~safe_col(dataset, T_UF) THEN KeptByOthers("uf")
            ELSE SelectSeq(KeptByOthers("uf"), LAMBDA r : Strip(RawCell(r, T_UF)) \in fspec.uf)

\* C13: the client filter keeps exactly the rows whose cliente_base(Cliente)
\* is selected, and the client list counts the kept rows by that base name:
\* two rows "A 01" and "A-02" are one client "A" with 2 installations.
C13_ClienteByBaseName ==
    Shown =>
        /\ report.kept =
               IF fspec.cliente = {} \/ ~safe_col(dataset, T_Cliente)
               THEN KeptByOthers("cliente")
               ELSE SelectSeq(KeptByOthers("cliente"),
                              LAMBDA r : cliente_base(RawCell(r, T_Cliente)) \in fspec.cliente)
        /\ safe_col(dataset, T_Cliente) =>
               \A i \in 1..Len(report.kept) :
                   LET b == cliente_base(RawCell(report.kept[i], T_Cliente))
                   IN  CountOf(report.cliente_counts, b) =
                           IF b = <<>> THEN 0
                           ELSE Cardinality({j \in 1..Len(report.kept) :
                                    cliente_base(RawCell(report.kept[j], T_Cliente)) = b})

\* "A" selected: the rows "A 01" and "A-02" are both kept and counted as one client
C13_Witness ==
    /\ Shown
    /\ fspec.cliente = {<<"A">>}
    /\ Len(report.kept) = 2
    /\ RawCell(report.kept[1], T_Cliente) = <<"A", " ", "0", "1">>
    /\ RawCell(report.kept[2], T_Cliente) = <<"A", "-", "0", "2">>
    /\ report.cliente_counts = << <<"A">>, <<"A">> >>

\* every order in which the three filters can be applied
FilterOrders ==
    {<<a, b, c>> : a \in {"period", "uf", "cliente"}, b \in {"period", "uf", "cliente"},
                   c \in {"period", "uf", "cliente"}} \cap
    {o \in Seq({"period", "uf", "cliente"}) : Len(o) = 3 /\ o[1] # o[2] /\ o[1] # o[3] /\ o[2] # o[3]}

\* C14: the filters give the same rows in whatever order they are applied,
\* and Este mês after Este ano gives what Este ano after Este mês gives.
C14_OrderIndependent ==
    Shown =>
        /\ \A o \in FilterOrders : ApplyInOrder(o, report.df, fspec, AllRows) = report.kept
        /\ LET hvd == has_valid_dates(report.df)
               mes == [fspec EXCEPT !.period = P_Mes]
               ano == [fspec EXCEPT !.period = P_Ano]
           IN  PeriodFilter(report.df, hvd, ano, PeriodFilter(report.df, hvd, mes, AllRows))
                 = PeriodFilter(report.df, hvd, mes, PeriodFilter(report.df, hvd, ano, AllRows))

\* the three filters all selected, rows dropped and a row left
C14_Witness ==
    /\ Shown
    /\ has_valid_dates(report.df)
    /\ fspec.uf # {}
    /\ fspec.cliente # {}
    /\ Len(report.kept) = 1
    /\ Len(dataset.rows) = 2

----------------------------------------------------------------------------
(* Claims about the figures of the report (SpecFigures) *)

\* the cells of a column of the frame as read, for the rows kept
RawColumn(col) == [i \in 1..Len(report.kept) |-> RawCell(report.kept[i], col)]

\* the trimmed texts of q that are not empty
NonEmptyTrimmed(q) ==
    SelectSeq([i \in 1..Len(q) |-> Strip(q[i])], LAMBDA t : t # <<>>)

\* C15: the most common modality is the most frequent of the trimmed,
\* non-empty cells of the column, of several the one met first; it is the
\* dash when no cell is non-empty, and never the empty text.
C15_ModeSkipsBlanks ==
    (Shown /\ safe_col(dataset, T_Modalidade)) =>
        LET ne == NonEmptyTrimmed(RawColumn(T_Modalidade))
        IN  IF ne = <<>> THEN report.modalidade_mais_comum = Dash
            ELSE /\ report.modalidade_mais_comum # <<>>
                 /\ \E i \in 1..Len(ne) :
                        /\ report.modalidade_mais_comum = ne[i]
                        /\ \A j \in 1..Len(ne) : CountOf(ne, ne[j]) <= CountOf(ne, ne[i])
                        /\ \A j \in 1..(i - 1) : CountOf(ne, ne[j]) < CountOf(ne, ne[i])

\* a render has been made and nothing was written since
Rendered == report.stage \in {"shown", "no_data"}

\* the last form saved wrote a row
Saved == lastOp.kind \in {"insert", "append"}

\* the row of the last save as a frame of the columns read holds it
SavedFrameRow == NormRow(lastOp.row, Len(dataset.columns))

\* the frame has one row more than a read before the save had, and the saved row is in it
HoldsSavedRecord ==
    /\ Len(dataset.rows) = Len(read_sheet(lastOp.pre).rows) + 1
    /\ \E i \in 1..Len(dataset.rows) : dataset.rows[i] = SavedFrameRow

\* C16 as stated: after a save that succeeded the frame of the next render
\* holds the record that was written.
C16_RenderHoldsSavedRecord ==
    (Rendered /\ Saved) => HoldsSavedRecord

\* C16: every render works on a fresh read of the sheet as it is, never on a
\* frame read before a write; after a save the frame holds the saved row when
\* that row has a non-blank cell under a named column, and is the frame a
\* read before the save gives when it has none.
C16_RenderReadsFresh ==
    Rendered =>
        /\ dataset = read_sheet(sheet)
        /\ Saved =>
               IF AllCellsBlank(SavedFrameRow)
               THEN dataset.rows = read_sheet(lastOp.pre).rows
               ELSE HoldsSavedRecord

\* a render after a save shows the saved record, which the frame before did not have
C16_Witness ==
    /\ Shown
    /\ Saved
    /\ ~AllCellsBlank(SavedFrameRow)
    /\ HoldsSavedRecord
    /\ dataset # read_sheet(lastOp.pre)
    /\ Len(read_sheet(lastOp.pre).rows) > 0

\* the kept rows whose duration can be read
ParsableRows ==
    {i \in 1..Len(report.kept) : parse_duration(RawCell(report.kept[i], T_Duracao)).ok}

RECURSIVE SumOver(_, _)
\* the sum of f over the set S
SumOver(f, S) ==
    IF S = {} THEN 0
    ELSE LET x == CHOOSE y \in S : TRUE IN f[x] + SumOver(f, S \ {x})

\* the money of a kept row in cents, 0 when it cannot be read
CentsOfRow(i) ==
    LET v == parse_brl_money(RawCell(report.kept[i], T_Valor))
    IN  IF v.ok THEN ToCents(v.text) ELSE 0

\* the sum of money over the kept rows, 0 without the column
MoneySum ==
    IF safe_col(dataset, T_Valor)
    THEN SumOver([i \in 1..Len(report.kept) |-> CentsOfRow(i)], 1..Len(report.kept))
    ELSE 0

\* C17: a row whose duration cannot be read is left out of the mean duration
\* but counted in the number of installations and used by the other figures;
\* the mean is over the readable durations only, the dash when there is none.
C17_MeanOverParsableOnly ==
    (Shown /\ safe_col(dataset, T_Duracao)) =>
        LET secs == [i \in 1..Len(report.kept) |->
                        parse_duration(RawCell(report.kept[i], T_Duracao)).secs]
        IN  /\ report.total_instalacoes = Len(report.kept)
            /\ report.faturamento_total = MoneySum
            /\ report.tempo_medio_str =
                   IF ParsableRows = {} THEN Dash
                   ELSE format_minutes_pt(SumOver(secs, ParsableRows),
                                          60 * Cardinality(ParsableRows))

\* two rows, one of 01:30 and one with no duration: mean 1h e 30 min, 2
\* installations, and the money of both rows summed
C17_Witness ==
    /\ Shown
    /\ safe_col(dataset, T_Duracao)
    /\ Len(report.kept) = 2
    /\ Cardinality(ParsableRows) = 1
    /\ report.total_instalacoes = 2
    /\ report.tempo_medio_str = <<"1", "h", " ", "e", " ", "3", "0", " ", "m", "i", "n">>
    /\ report.faturamento_total = 100000

\* the sum of the readable durations over the kept rows in seconds, 0 without the column
DurationSum ==
    IF safe_col(dataset, T_Duracao)
    THEN SumOver([i \in 1..Len(report.kept) |->
                     parse_duration(RawCell(report.kept[i], T_Duracao)).secs], ParsableRows)
    ELSE 0

CandidatesPresent ==
    {k \in 1..Len(ReagCandidates) : safe_col(dataset, ReagCandidates[k])}

\* the kept rows that are positive in the column col
Positives(col) ==
    {i \in 1..Len(report.kept) :
        LET low == PyLower(RawCell(report.kept[i], col))
        IN  Contains(low, T_reagend)
            \/ low \in {<<"s", "i", "m">>, <<"y", "e", "s">>, <<"t", "r", "u", "e">>, <<"1">>}}

\* C19: the rate is taken on the first column of the priority list that the
\* frame has; a row is positive iff its lowercased cell contains "reagend" or
\* is sim, yes, true or 1; the rate is positives over rows, within 0..1, and
\* undefined iff there is no candidate column or no row.
C19_RateOverFirstCandidate ==
    Shown =>
        IF CandidatesPresent = {} \/ report.kept = <<>> THEN ~report.reag_rate.ok
        ELSE LET col == ReagCandidates[MinOf(CandidatesPresent)]
             IN  /\ report.reag_rate.ok
                 /\ report.reag_rate.den = Len(report.kept)
                 /\ report.reag_rate.num = Cardinality(Positives(col))
                 /\ 0 <= report.reag_rate.num
                 /\ report.reag_rate.num <= report.reag_rate.den

\* Motivo stands before Status in the sheet and has no positive row, Status
\* has two: the rate is 2 of 2
C19_Witness ==
    /\ Shown
    /\ dataset.columns = HFigures
    /\ Len(report.kept) = 2
    /\ Positives(T_Motivo) = {}
    /\ report.reag_rate = [ok |-> TRUE, num |-> 2, den |-> 2]

\* C20: when fewer than two rows of values are fetched the frame is the empty
\* one and the page stops at the no-data state, with no filter or figure.
C20_NoDataStops ==
    (Rendered /\ Len(GetAllValues(sheet)) < 2) =>
        /\ dataset = DataFrame(<<>>, <<>>)
        /\ report = [stage |-> "no_data"]

\* a render over a tab that has its header row only
C20_Witness ==
    /\ report = [stage |-> "no_data"]
    /\ Len(GetAllValues(sheet)) = 1
    /\ dataset.read

----------------------------------------------------------------------------
(* Durations written and read back: src/app.py 198-247, 733-747, 883-917 *)

\* the digits the hour and minute texts are made of
ClockDigits == {"0", "1", "2", "5", "9"}

\* every text \d{1,2}:\d{2} over these digits
ClockTexts ==
    {h \o <<":">> \o m :
        h \in {<<a>> : a \in ClockDigits} \cup {<<a, b>> : a, b \in ClockDigits},
        m \in {<<a, b>> : a, b \in ClockDigits}}

\* times of day of the form's Início and Término
ClockHours == {0, 9, 13, 23}

ClockMinutes == {0, 5, 30, 59}

TimesOfDay == [h : ClockHours, m : ClockMinutes]

\* f"{h:02d}:{m:02d}" as the form holds a time
TimeText(t) == Pad2(t.h) \o <<":">> \o Pad2(t.m)

\* the texts and times given
DurationInputs ==
    {[stage |-> "cell", text |-> t] : t \in ClockTexts}
    \cup {[stage |-> "form", inicio |-> t1, termino |-> t2] : t1, t2 \in TimesOfDay}

InitDuration ==
    /\ drun \in DurationInputs
    /\ auth = NoAuth
    /\ table = NoTable
    /\ sheet = EmptyTab
    /\ lastOp = NoOp
    /\ CBIdle
    /\ FormIdle
    /\ RaceIdle
    /\ ReportIdle

\* _parse_duration_to_minutes of a cell holding an HH:MM text
ParseDurationCell ==
    /\ drun.stage = "cell"
    /\ drun' = [stage |-> "parsed", text |-> drun.text, res |-> parse_duration(drun.text)]
    /\ UNCHANGED <<auth, table, wsVars, cbVars, formVars, raceVars, dataset, repVars>>

\* the save run's duracao_calc = _duration_hhmm(inicio, termino), written
\* under "Duração", and the report's reading of that cell
SaveAndParseDuration ==
    /\ drun.stage = "form"
    /\ \E d \in {duration_hhmm(TimeText(drun.inicio), TimeText(drun.termino))} :
           drun' = [stage |-> "saved", inicio |-> drun.inicio, termino |-> drun.termino,
                    written |-> d,
                    res |-> IF d.ok THEN parse_duration(d.text) ELSE NoDuration]
    /\ UNCHANGED <<auth, table, wsVars, cbVars, formVars, raceVars, dataset, repVars>>

NextDuration ==
    \/ ParseDurationCell
    \/ SaveAndParseDuration

SpecDuration == InitDuration /\ [][NextDuration]_vars

\* C21: an HH:MM text is read as exactly 60*H + M minutes, and the duration
\* the save run writes for Início <= Término is read back as exactly the
\* minutes from Início to Término.
C21_ClockTextIsExact ==
    /\ drun.stage = "parsed" =>
           LET parts == SplitOn(drun.text, ":")
               H == TextToNat(parts[1])
               M == TextToNat(parts[2])
           IN  /\ drun.res.ok
               /\ drun.res.secs = 60 * (60 * H + M)
    /\ drun.stage = "saved" =>
           LET from == 60 * drun.inicio.h + drun.inicio.m
               to   == 60 * drun.termino.h + drun.termino.m
           IN  /\ drun.written.ok <=> from <= to
               /\ from <= to => (drun.res.ok /\ drun.res.secs = 60 * (to - from))

\* 09:30 to 13:05 is written as 03:35 and read as 215 minutes
C21_Witness ==
    /\ drun.stage = "saved"
    /\ drun.inicio = [h |-> 9, m |-> 30]
    /\ drun.termino = [h |-> 13, m |-> 5]
    /\ drun.written.text = <<"0", "3", ":", "3", "5">>
    /\ drun.res = [ok |-> TRUE, secs |-> 215 * 60]

----------------------------------------------------------------------------
(* The frame of one append_row_to_sheet call (SpecAppend) *)

\* the sheet with its row at taken out
WithoutRow(sh, at) == SubSeq(sh, 1, at - 1) \o SubSeq(sh, at + 1, Len(sh))

\* a row whose reference cell is empty while another cell holds a value
PartlyFilled(row) ==
    /\ Strip(row[1]) = <<>>
    /\ \E c \in 2..Len(row) : ~IsBlankCell(row[c])

\* C22: one call destroys no data: the sheet after it, with the written row
\* taken out, is the sheet before it, cell for cell and in the same order (a
\* row with an empty reference cell and other cells filled included); the
\* rows from the insertion point on are one index further down, the others
\* where they were; a call that fails leaves the sheet as it was.
C22_ExistingRowsKept ==
    /\ lastOp.kind = "error" => sheet = lastOp.pre
    /\ Wrote =>
           /\ lastOp.index \in 2..Len(sheet)
           /\ WithoutRow(sheet, lastOp.index) = lastOp.pre
           /\ \A r \in 1..Len(lastOp.pre) :
                  sheet[IF r < lastOp.index THEN r ELSE r + 1] = lastOp.pre[r]

\* the record went in at a row that had an empty reference cell and a value
\* in another cell: that row is now one index further down, unchanged
C22_Witness ==
    /\ lastOp.kind = "insert"
    /\ PartlyFilled(lastOp.pre[lastOp.index])
    /\ sheet[lastOp.index + 1] = lastOp.pre[lastOp.index]
    /\ sheet[lastOp.index] # lastOp.pre[lastOp.index]

----------------------------------------------------------------------------
(* The password gate in front of every script run: src/app.py 26-69 *)

T_pw == <<"a", "b">>

\* app_pwd = st.secrets.get("app_password") or st.secrets.get("SENHA_DASH"):
\* the empty text stands for no password configured
ConfiguredPasswords == {<<>>, T_pw, <<"A", "B">>}

\* what the "Senha de acesso" input can hold
EnteredPasswords == {<<>>, T_pw, <<"a", "b", " ">>, <<"A", "B">>}

\* a gate that draws the login screen and lets the script go on
require_password_NoStop(app_pwd, authenticated, senha, entrar) ==
    [authenticated |-> IF app_pwd = <<>> THEN authenticated
                       ELSE IF authenticated = "true" \/ (entrar /\ senha = app_pwd)
                       THEN "true" ELSE "false",
     outcome |-> "pass"]

\* require_password(): authenticated is "absent" until the first run sets it;
\* the outcome is "pass" (return), "rerun" (st.rerun()) or "stop" (st.stop())
require_password(app_pwd, authenticated, senha, entrar) ==
    LET a1 == IF authenticated = "absent" THEN "false" ELSE authenticated
    IN  IF app_pwd = <<>> THEN [authenticated |-> authenticated, outcome |-> "pass"]
        ELSE IF a1 = "true" THEN [authenticated |-> "true", outcome |-> "pass"]
        ELSE IF entrar /\ senha = app_pwd THEN [authenticated |-> "true", outcome |-> "rerun"]
        ELSE [authenticated |-> a1, outcome |-> "stop"]

\* the pages a run can go to: the report, the form as drawn, the form saved
Pages == {"report", "form", "save"}

AuthSheet ==
    <<HFilter,
      <<<<"0", "5", "/", "0", "1", "/", "2", "0", "2", "6">>, <<"S", "P">>, <<"B">>>> >>

InitAuth ==
    /\ \E pw \in ConfiguredPasswords :
           auth = [stage |-> "run", app_pwd |-> pw, authenticated |-> "absent",
                   senha |-> <<>>, entrar |-> FALSE, outcome |-> "none", access |-> "none"]
    /\ drun = NoDur
    /\ table = NoTable
    /\ sheet = AuthSheet
    /\ lastOp = NoOp
    /\ CBIdle
    /\ FormIdle
    /\ RaceIdle
    /\ ReportIdle

\* one run of the script: the gate at line 69, then, if it returns, the page:
\* the report reads the sheet (line 932), a saved form writes to it (line 920)
ScriptRun ==
    \E senha \in EnteredPasswords, entrar \in BOOLEAN, page \in Pages :
        \E g \in {require_password(auth.app_pwd, auth.authenticated, senha, entrar)} :
            LET reads  == g.outcome = "pass" /\ page = "report"
                writes == g.outcome = "pass" /\ page = "save" /\ Len(sheet) < MaxFrameRows + 2
            IN  /\ auth' = [auth EXCEPT !.authenticated = g.authenticated,
                                        !.senha = senha, !.entrar = entrar,
                                        !.outcome = g.outcome,
                                        !.access = IF reads THEN "read"
                                                   ELSE IF writes THEN "write" ELSE "none"]
                /\ dataset' = IF reads THEN read_sheet(sheet) ELSE dataset
                /\ IF writes
                   THEN \E r \in {append_row_to_sheet(sheet, ReportRec)} :
                            /\ sheet' = r.sheet
                            /\ lastOp' = [kind |-> r.kind, index |-> r.index, row |-> r.row,
                                          rec |-> ReportRec, pre |-> sheet]
                   ELSE UNCHANGED <<sheet, lastOp>>
                /\ UNCHANGED <<drun, table, cbVars, formVars, wpc, wloc, sheet0, repVars>>

NextAuth == ScriptRun

SpecAuth == InitAuth /\ [][NextAuth]_vars

\* C23: with a password configured, a run reads or writes the sheet only if
\* authenticated was true when it started; authenticated becomes true only
\* in a run where Entrar was pressed with the configured password entered;
\* and once true it stays true.
C23_GateBeforeSheet ==
    [][auth.app_pwd # <<>> =>
          /\ (auth'.access # "none" \/ dataset' # dataset \/ sheet' # sheet)
                 => auth.authenticated = "true"
          /\ (auth.authenticated # "true" /\ auth'.authenticated = "true")
                 => (auth'.entrar /\ auth'.senha = auth.app_pwd)
          /\ auth.authenticated = "true" => auth'.authenticated = "true"]_vars

\* after a login with the configured password a run has written to the sheet
C23_Witness ==
    /\ auth.stage = "run"
    /\ auth.app_pwd = T_pw
    /\ auth.authenticated = "true"
    /\ auth.access = "write"
    /\ Len(sheet) > Len(AuthSheet)

----------------------------------------------------------------------------
(* The table under the report and its download: src/app.py 1043-1047, 1379-1393 *)

T__data == <<"_", "d", "a", "t", "a">>

T__cliente_base == <<"_", "c", "l", "i", "e", "n", "t", "e", "_", "b", "a", "s", "e">>

T_Nome == <<"N", "o", "m", "e">>

\* the columns of df when df_f = df.copy() is made: the source's, "_data"
\* (line 944) and, with a Cliente column, "_cliente_base" (line 1018)
FrameColumns(df) ==
    df.columns \o <<T__data>>
        \o (IF safe_col(df, T_Cliente) THEN <<T__cliente_base>> ELSE <<>>)

\* options and default of "Colunas na tabela": [c for c in df.columns if not c.startswith("_")]
ShowColsOptions(df) ==
    SelectSeq(FrameColumns(df), LAMBDA c : ~(c # <<>> /\ c[1] = "_"))

\* q holds x
InSeq(q, x) == \E i \in 1..Len(q) : q[i] = x

\* the selections the multiselect can hold: options in the order they were picked
ShowColsChoices(options) ==
    {q \in UNION {[1..n -> 1..Len(options)] : n \in 0..Len(options)} :
        \A i, j \in 1..Len(q) : i # j => q[i] # q[j]}

\* the value of a column of the frame, added ones included, in a row
FrameCell(df, r, col) ==
    IF col = T__data THEN df.data[r]
    ELSE IF col = T__cliente_base THEN df.cbase[r]
    ELSE Cell(df, r, col)

\* df_show: df_f without "_data", cut down to show_cols when that leaves a column
df_show(df, kept, show_cols) ==
    LET dropped == SelectSeq(FrameColumns(df), LAMBDA c : c # T__data)
        cols_ok == SelectSeq(show_cols, LAMBDA c : InSeq(dropped, c))
        columns == IF show_cols # <<>> /\ cols_ok # <<>> THEN cols_ok ELSE dropped
    IN  [stage |-> "shown",
         show_cols |-> show_cols,
         columns |-> columns,
         rows |-> [i \in 1..Len(kept) |->
                      [c \in 1..Len(columns) |-> FrameCell(df, kept[i], columns[c])]]]

\* the filter selections a run is made with
TableSpecs ==
    {[DefaultSpec EXCEPT !.period = p, !.uf = u, !.cliente = c] :
        p \in {P_Mes, P_Ano}, u \in SUBSET {T_SP}, c \in SUBSET {<<"A">>}}

TableSheets ==
    {<<h>> \o body : h \in {HFilter, Renamed(HFilter, T_Cliente, T_Nome)},
                     body \in UNION {SeqsOfLen(FilterRows, n) : n \in 0..1}}

InitTable ==
    /\ sheet \in TableSheets
    /\ table = NoTable
    /\ drun = NoDur
    /\ auth = NoAuth
    /\ lastOp = NoOp
    /\ CBIdle
    /\ FormIdle
    /\ RaceIdle
    /\ ReportIdle

\* one run of the report page as far as its table: the read, the empty check,
\* the added columns, the filters, df_show handed to st.dataframe and download_csv
RunTable ==
    /\ \E fs \in TableSpecs :
           \E df_raw \in {FetchSheet(sheet, dataset)} :
               /\ fspec' = fs
               /\ dataset' = df_raw
               /\ IF df_raw.rows = <<>> THEN table' = [stage |-> "no_data"]
                  ELSE \E df \in {WithAddedColumns(df_raw)} :
                       \E pick \in ShowColsChoices(ShowColsOptions(df)) :
                           table' = df_show(df, ApplyFilters(df, fs),
                                            [i \in 1..Len(pick) |-> ShowColsOptions(df)[pick[i]]])
    /\ UNCHANGED <<report, drun, auth, sheet, lastOp, cbVars, formVars, wpc, wloc, sheet0>>

NextTable == RunTable

SpecTable == InitTable /\ [][NextTable]_vars

\* C24: every column of the table shown and exported is a header of the
\* source; "_data" and "_cliente_base" are never among them, whatever the
\* filters and the choice of visible columns, the empty choice included.
C24_OnlySourceColumns ==
    table.stage = "shown" =>
        \A c \in 1..Len(table.columns) :
            /\ InSeq(dataset.columns, table.columns[c])
            /\ table.columns[c] \notin {T__data, T__cliente_base}

====
